---- MODULE Spec2Model ----
(***************************************************************************)
(* Event store of the event-tracking backend: the relational tables of     *)
(* the Prisma schema (users, tags, events, event_user_assignments,         *)
(* event_tags, attachments, event_edit_history), the repository methods    *)
(* that write them and the HTTP handlers of /api/events that call those    *)
(* methods.  A handler is a process; every `await` of a handler that        *)
(* reaches the database is one step, so that requests interleave where     *)
(* the Node.js event loop lets them interleave.  One Prisma call is one     *)
(* transaction and therefore one step.                                      *)
(***************************************************************************)
EXTENDS Integers, Sequences, FiniteSets, TLC

\* ---------------------------------------------------------------- bounds
MaxEvents == 2      \* events ever created in a run
MaxClock == 3       \* event writes (create, update) in a run
MaxAttachments == 1 \* attachment rows ever inserted in a run
MaxTracked == 1     \* events ever created in a run that follows one event
MaxIds == 2         \* longest assignedUserIds / tagIds list of a request
MaxValue == 2       \* distinct values of a scalar event field
MaxSupplied == 2    \* most scalar fields one update request of SpecEdit supplies
MaxNames == 3       \* longest name list given to createMultiple
MaxListed == 3      \* events in the store that listings are run against
MaxPage == 2        \* highest page a listing asks for
MaxLimit == 2       \* highest limit a listing asks with
MaxTags == 2        \* tags created in a run of SpecTagNames
MaxUsers == 2       \* users created in a run of SpecUsers

UserIds == {"u1", "u2"}
TagIds == {"t1", "t2"}
Procs == {"p1", "p2"}
EventIds == 1..MaxEvents
Values == 1..MaxValue

\* The four fields recordEditHistory compares.
Fields == {"title", "content", "type", "timestamp"}

\* `undefined` of a request field, `null` of a result.
Undefined == 0
NoEvent == 0

VARIABLES
    users,        \* users table: id -> row
    tagRows,      \* tags table: id -> row
    events,       \* events table: id -> row
    assignments,  \* event_user_assignments: set of [eventId, userId]
    eventTags,    \* event_tags: set of [eventId, tagId]
    attachments,  \* attachments: set of [id, eventId]
    history,      \* event_edit_history, in insertion (editedAt) order
    clock,        \* the database clock behind now() / @updatedAt
    nextEventId,  \* the next event id (a cuid is never reused)
    nextAttachmentId, \* the next attachment id
    nextTagId,    \* the number of the next tag the store mints an id for
    nextUserId,   \* the number of the next user the store mints an id for
    proc          \* the requests in flight: one record per process; beside
                  \* the handler's locals (cur: the event update read, res:
                  \* the event its write returned) a record keeps `was`, the
                  \* event as stored just before that write

db == <<users, tagRows, events, assignments, eventTags, attachments, history,
        clock, nextEventId, nextAttachmentId, nextTagId, nextUserId>>
vars == <<users, tagRows, events, assignments, eventTags, attachments, history,
          clock, nextEventId, nextAttachmentId, nextTagId, nextUserId, proc>>

\* ------------------------------------------------------------- requests
Range(s) == {s[i] : i \in 1..Len(s)}

SeqsUpTo(S, n) == UNION {[1..k -> S] : k \in 0..n}

\* An optional id list: absent (undefined) or an array, possibly empty.
Absent == [present |-> FALSE, ids |-> <<>>]
Ids(s) == [present |-> TRUE, ids |-> s]

NoPatch == [f \in Fields |-> Undefined]

\* UpdateEventRequest: every scalar optional, both id lists optional.
NoReq == [patch |-> NoPatch, asg |-> Absent, tgs |-> Absent]

NoRow == [f \in Fields |-> Undefined]

\* ----------------------------------------------------- hydrated event
\* include: { assignedUsers, tags }: the relation rows of event e.
TagsOf(rows, e) == {a.tagId : a \in {x \in rows : x.eventId = e}}
UsersOf(rows, e) == {a.userId : a \in {x \in rows : x.eventId = e}}

\* formatEvent: the row with its relations resolved, over the given tables.
Hydrate(row, asg, tgs, e) ==
    [title |-> row.title,
     content |-> row.content,
     type |-> row.type,
     timestamp |-> row.timestamp,
     creatorId |-> row.creatorId,
     createdAt |-> row.createdAt,
     updatedAt |-> row.updatedAt,
     assignedUsers |-> UsersOf(asg, e),
     tags |-> TagsOf(tgs, e)]

formatEvent(e) == Hydrate(events[e], assignments, eventTags, e)

NoResult ==
    [title |-> Undefined, content |-> Undefined, type |-> Undefined,
     timestamp |-> Undefined, creatorId |-> "", createdAt |-> 0,
     updatedAt |-> 0, assignedUsers |-> {}, tags |-> {}]

\* findById: the hydrated event, or null.
findById(e) == IF e \in DOMAIN events THEN formatEvent(e) ELSE NoResult

Found(r) == r.createdAt # 0

\* --------------------------------------------------- storage constraints
Min(S) == CHOOSE x \in S : \A y \in S : x <= y

\* What BadAt does with a bug that takes the junction tables to have no
\* composite key.
BadAtNoKey(list, live) == {i \in 1..Len(list) : list[i] \notin live}

\* The rows of a nested `create: ids.map(...)` are inserted in order; the first
\* row that breaks a constraint aborts the transaction.  A row breaks the
\* foreign key when its id names no live row, and the composite primary key
\* @@id([eventId, userId]) / @@id([eventId, tagId]) when the id came earlier.
BadAt(list, live) ==
    {i \in 1..Len(list) :
        list[i] \notin live \/ \E j \in 1..(i - 1) : list[j] = list[i]}

LinkError(list, live, fk) ==
    IF BadAt(list, live) = {} THEN ""
    ELSE IF list[Min(BadAt(list, live))] \notin live THEN fk ELSE "P2002"

\* What ApplyPatch does with a bug that refreshes createdAt like updatedAt.
ApplyPatchTouchesCreatedAt(row, patch) ==
    [row EXCEPT !.title = IF patch.title # Undefined THEN patch.title ELSE @,
                !.content = IF patch.content # Undefined THEN patch.content ELSE @,
                !.type = IF patch.type # Undefined THEN patch.type ELSE @,
                !.timestamp = IF patch.timestamp # Undefined THEN patch.timestamp ELSE @,
                !.createdAt = @ + 1]

\* What ApplyPatch does with a bug that writes the read-modify-write way: a
\* scalar the request leaves out is written back as the column's default.
ApplyPatchOverwrites(row, patch) ==
    [row EXCEPT !.title = IF patch.title # Undefined THEN patch.title ELSE 1,
                !.content = IF patch.content # Undefined THEN patch.content ELSE 1,
                !.type = IF patch.type # Undefined THEN patch.type ELSE 1,
                !.timestamp = IF patch.timestamp # Undefined THEN patch.timestamp ELSE 1]

\* ...eventFields / ...updateData: a supplied scalar overwrites the column,
\* an undefined one leaves it alone.
ApplyPatch(row, patch) ==
    [row EXCEPT !.title = IF patch.title # Undefined THEN patch.title ELSE @,
                !.content = IF patch.content # Undefined THEN patch.content ELSE @,
                !.type = IF patch.type # Undefined THEN patch.type ELSE @,
                !.timestamp = IF patch.timestamp # Undefined THEN patch.timestamp ELSE @]

\* What ReplaceLinks does with a bug that adds the supplied ids to the set.
ReplaceLinksMerges(old, list) == IF list.present THEN old \cup Range(list.ids) ELSE old

\* `deleteMany: {}, create: ids.map(...)` when the list is supplied: the rows
\* of the event are dropped and one row per id inserted; nothing otherwise.
ReplaceLinks(old, list) == IF list.present THEN Range(list.ids) ELSE old

\* The error prisma.event.update throws, "" when the transaction commits.
UpdateError(e, req) ==
    IF e \notin DOMAIN events THEN "P2025"
    ELSE IF req.asg.present /\ LinkError(req.asg.ids, DOMAIN users, "P2003_userId") # ""
         THEN LinkError(req.asg.ids, DOMAIN users, "P2003_userId")
    ELSE IF req.tgs.present THEN LinkError(req.tgs.ids, DOMAIN tagRows, "P2003_tagId")
    ELSE ""

\* What CreateError does with a bug that leaves the foreign keys of the
\* store unenforced.
CreateErrorNoForeignKey(creator, req) ==
    IF BadAt(req.asg.ids, Range(req.asg.ids)) # {} \/ BadAt(req.tgs.ids, Range(req.tgs.ids)) # {}
    THEN "P2002" ELSE ""

\* The error prisma.event.create throws, "" when the transaction commits.
CreateError(creator, req) ==
    IF creator \notin DOMAIN users THEN "P2003_creatorId"
    ELSE IF LinkError(req.asg.ids, DOMAIN users, "P2003_userId") # ""
         THEN LinkError(req.asg.ids, DOMAIN users, "P2003_userId")
    ELSE LinkError(req.tgs.ids, DOMAIN tagRows, "P2003_tagId")

\* recordEditHistory: {field: {from, to}} for the fields that differ between
\* the event read before the write and the event the write returned; a field
\* that does not differ has no key (<<>> here).
Changes(old, new) ==
    [f \in Fields |-> IF old[f] # new[f] THEN <<old[f], new[f]>> ELSE <<>>]

NoChanges == [f \in Fields |-> <<>>]

\* What EventCascade does with a bug that forgets the foreign key's cascade.
EventCascadeKeepsRows(rows, gone) == rows

\* onDelete: Cascade of a relation that points at an event (assignments,
\* event tags, attachments): the rows of the deleted events go.
EventCascade(rows, gone) == {a \in rows : a.eventId \notin gone}

\* onDelete: Cascade of EventEditHistory.event.
HistoryCascade(rows, gone) == SelectSeq(rows, LAMBDA h : h.eventId \notin gone)

\* What TagCascade does with a bug that drops every tag of the events that
\* carried the deleted one.
TagCascadeDropsAll(rows, t) ==
    {a \in rows : \A b \in rows : b.tagId = t => b.eventId # a.eventId}

\* onDelete: Cascade of EventUserAssignment.user and of EventTag.tag.
UserCascade(rows, u) == {a \in rows : a.userId # u}
TagCascade(rows, t) == {a \in rows : a.tagId # t}

Restrict(f, S) == [x \in S |-> f[x]]

\* ------------------------------------------------------------- listings
\* The arguments of a paginated listing; a date is Undefined where the
\* listing takes none.
NoQuery == [page |-> 0, limit |-> 0, startDate |-> Undefined, endDate |-> Undefined]

\* SearchEventsRequest: every filter optional.
NoFilter ==
    [query |-> Undefined, tags |-> Absent, users |-> Absent, types |-> Absent,
     startDate |-> Undefined, endDate |-> Undefined]

\* ------------------------------------------------------ requests as sent
\* A token as jwt.verify sees it: whose it is, the secret it was signed
\* with and whether its expiry has passed.
JWT_SECRET == "development-secret-key"
NoToken == [userId |-> "", secret |-> "", expired |-> FALSE]

\* The Authorization header: absent, or one or two words ("Bearer TOKEN").
NoHeader == [words |-> 0, token |-> NoToken]

\* A string of a body: given or not, and its length.
NoStr == [given |-> FALSE, len |-> 0]
Str(n) == [given |-> TRUE, len |-> n]

\* The fields of a request body the schemas look at.
NoBody ==
    [title |-> NoStr, content |-> NoStr, type |-> "", ids |-> Absent,
     name |-> "", color |-> "", email |-> "", password |-> ""]

\* The data of a user update: the fields it gives (Partial), and their text.
NoStrings == [given |-> {}, password |-> ""]

\* ---------------------------------------------------------------- processes
Idle ==
    [pc |-> "idle", op |-> "", ev |-> NoEvent, caller |-> "", req |-> NoReq,
     i |-> 0, cur |-> NoResult, was |-> NoResult, res |-> NoResult,
     names |-> <<>>, found |-> {}, todo |-> <<>>, left |-> {}, made |-> {},
     q |-> NoQuery, at |-> 0, data |-> <<>>, total |-> 0, totalPages |-> 0,
     f |-> NoFilter, hits |-> {}, tag |-> "", name |-> "", color |-> "",
     email |-> "", password |-> "", row |-> {}, user |-> {},
     header |-> NoHeader, body |-> NoBody, calls |-> 0, id |-> "", set |-> NoStrings,
     resp |-> "", err |-> ""]

\* A process is free for a request before its first one and once it has
\* answered the last one; its record keeps that answer until then.
Free(p) == proc[p].pc \in {"idle", "done"}

\* The handler answers: of its locals only the answer is kept.
Answer(op, e, caller, resp, err) ==
    [Idle EXCEPT !.pc = "done", !.op = op, !.ev = e, !.caller = caller,
                 !.resp = resp, !.err = err]

Done(p, resp, err) ==
    proc' = [proc EXCEPT ![p] =
               Answer(proc[p].op, proc[p].ev, proc[p].caller, resp, err)]

\* Where a handler goes once it has passed its ownership check: the first
\* loop that has an id to look up, else the repository call.
AfterStart(op, req) ==
    IF req.asg.present /\ Len(req.asg.ids) > 0 THEN "checkUsers"
    ELSE IF req.tgs.present /\ Len(req.tgs.ids) > 0 THEN "checkTags"
    ELSE op

AfterUsers(op, req) ==
    IF req.tgs.present /\ Len(req.tgs.ids) > 0 THEN "checkTags" ELSE op

\* What IsCreator does with a bug that takes any authenticated caller.
IsCreatorOrAnyone(existing, caller) == caller \in UserIds

\* The ownership check of router.put('/:id') and router.delete('/:id'):
\* existingEvent.creatorId !== req.user!.id answers 403.
IsCreator(existing, caller) == existing.creatorId = caller

\* router.post('/'): the body passed CreateEventSchema and authenticateToken
\* resolved the caller; the handler starts its reference checks.
PostStart(p, caller, req) ==
    /\ Free(p)
    /\ caller \in DOMAIN users
    /\ proc' = [proc EXCEPT ![p] =
                  [Idle EXCEPT !.pc = AfterStart("create", req), !.op = "post",
                               !.caller = caller, !.req = req, !.i = 1]]
    /\ UNCHANGED db

\* router.put('/:id') up to the ownership check: findById, 404 when the event
\* is absent, 403 when the caller is not its creator.
PutStart(p, e, caller, req) ==
    /\ Free(p)
    /\ caller \in DOMAIN users
    /\ LET existing == findById(e)
           me == [Idle EXCEPT !.op = "put", !.ev = e, !.caller = caller, !.req = req]
       IN proc' = [proc EXCEPT ![p] =
                     IF ~Found(existing)
                     THEN Answer("put", e, caller, "EVENT_NOT_FOUND", "")
                     ELSE IF ~IsCreator(existing, caller)
                     THEN Answer("put", e, caller, "INSUFFICIENT_PERMISSIONS", "")
                     ELSE [me EXCEPT !.pc = AfterStart("update", req), !.i = 1]]
    /\ UNCHANGED db

\* EventRepository.create called directly, as the repository's tests do.
CreateStart(p, creator, req) ==
    /\ Free(p)
    /\ proc' = [proc EXCEPT ![p] =
                  [Idle EXCEPT !.pc = "create", !.op = "create", !.caller = creator,
                               !.req = req]]
    /\ UNCHANGED db

\* EventRepository.update called directly, as the repository's tests do: any
\* event id, any request, any editor id.
UpdateStart(p, e, editor, req) ==
    /\ Free(p)
    /\ proc' = [proc EXCEPT ![p] =
                  [Idle EXCEPT !.pc = "update", !.op = "update", !.ev = e,
                               !.caller = editor, !.req = req]]
    /\ UNCHANGED db

\* One turn of `for (const userId of assignedUserIds)`: userRepository.exists.
CheckUser(p) ==
    /\ proc[p].pc = "checkUsers"
    /\ LET me == proc[p]
           op == IF me.op = "post" THEN "create" ELSE "update"
       IN IF me.req.asg.ids[me.i] \notin DOMAIN users
          THEN Done(p, "INVALID_USER_ID", "")
          ELSE IF me.i < Len(me.req.asg.ids)
          THEN proc' = [proc EXCEPT ![p].i = me.i + 1]
          ELSE proc' = [proc EXCEPT ![p].pc = AfterUsers(op, me.req), ![p].i = 1]
    /\ UNCHANGED db

\* One turn of `for (const tagId of tagIds)`: tagRepository.exists.
CheckTag(p) ==
    /\ proc[p].pc = "checkTags"
    /\ LET me == proc[p]
           op == IF me.op = "post" THEN "create" ELSE "update"
       IN IF me.req.tgs.ids[me.i] \notin DOMAIN tagRows
          THEN Done(p, "INVALID_TAG_ID", "")
          ELSE IF me.i < Len(me.req.tgs.ids)
          THEN proc' = [proc EXCEPT ![p].i = me.i + 1]
          ELSE proc' = [proc EXCEPT ![p].pc = op, ![p].i = 1]
    /\ UNCHANGED db

\* The response of a handler whose repository call failed.
Failure(op) ==
    CASE op = "post" -> "INTERNAL_SERVER_ERROR"
      [] op = "put" -> "UPDATE_FAILED"
      [] op = "delete" -> "DELETE_FAILED"
      [] op = "remove" -> "false"
      [] op = "create" -> "throws"
      [] OTHER -> "null"

Success(op) ==
    CASE op = "post" -> "CREATED"
      [] op = "put" -> "OK"
      [] op = "delete" -> "NO_CONTENT"
      [] op = "remove" -> "true"
      [] OTHER -> "event"

\* The row prisma.event.create inserts.
NewEvent(creator, req) ==
    [title |-> req.patch.title,
     content |-> req.patch.content,
     type |-> req.patch.type,
     timestamp |-> IF req.patch.timestamp # Undefined THEN req.patch.timestamp
                   ELSE clock + 1,
     creatorId |-> creator,
     createdAt |-> clock + 1,
     updatedAt |-> clock + 1]

\* EventRepository.create: one prisma.event.create with nested creates.
RepoCreate(p) ==
    /\ proc[p].pc = "create"
    /\ LET me == proc[p]
           e == nextEventId
           err == CreateError(me.caller, me.req)
       IN IF err # ""
          THEN Done(p, Failure(me.op), err) /\ UNCHANGED db
          ELSE /\ events' = [x \in DOMAIN events \cup {e} |->
                               IF x = e THEN NewEvent(me.caller, me.req) ELSE events[x]]
               /\ assignments' = assignments \cup
                     {[eventId |-> e, userId |-> u] : u \in Range(me.req.asg.ids)}
               /\ eventTags' = eventTags \cup
                     {[eventId |-> e, tagId |-> t] : t \in Range(me.req.tgs.ids)}
               /\ clock' = clock + 1
               /\ nextEventId' = nextEventId + 1
               /\ proc' = [proc EXCEPT ![p] =
                             Answer(me.op, e, me.caller, Success(me.op), "")]
               /\ UNCHANGED <<users, tagRows, attachments, history, nextAttachmentId, nextTagId, nextUserId>>

\* EventRepository.update, line 167: the read the diff is later made against.
RepoFind(p) ==
    /\ proc[p].pc = "update"
    /\ LET cur == findById(proc[p].ev)
       IN IF ~Found(cur)
          THEN Done(p, Failure(proc[p].op), "")
          ELSE proc' = [proc EXCEPT ![p].pc = "write", ![p].cur = cur]
    /\ UNCHANGED db

\* What RepoWrite does with a bug that runs the nested deleteMany as a
\* statement of its own, outside the transaction of the row update.
RepoWriteInSteps(p) ==
    /\ proc[p].pc = "write"
    /\ LET me == proc[p]
           e == me.ev
           err == UpdateError(e, me.req)
       IN IF err # ""
          THEN Done(p, Failure(me.op), err) /\ UNCHANGED db
          ELSE IF me.i = 0 /\ (me.req.asg.present \/ me.req.tgs.present)
          THEN /\ assignments' = IF me.req.asg.present
                                 THEN {a \in assignments : a.eventId # e}
                                 ELSE assignments
               /\ eventTags' = IF me.req.tgs.present
                               THEN {a \in eventTags : a.eventId # e}
                               ELSE eventTags
               /\ proc' = [proc EXCEPT ![p].i = 1]
               /\ UNCHANGED <<users, tagRows, events, attachments, history, clock,
                              nextEventId, nextAttachmentId, nextTagId, nextUserId>>
          ELSE /\ events' = [events EXCEPT ![e] =
                               [ApplyPatch(@, me.req.patch) EXCEPT !.updatedAt = clock + 1]]
               /\ assignments' = {a \in assignments : a.eventId # e} \cup
                     {[eventId |-> e, userId |-> u] :
                        u \in ReplaceLinks(findById(e).assignedUsers, me.req.asg)}
               /\ eventTags' = {a \in eventTags : a.eventId # e} \cup
                     {[eventId |-> e, tagId |-> t] :
                        t \in ReplaceLinks(findById(e).tags, me.req.tgs)}
               /\ clock' = clock + 1
               /\ proc' = [proc EXCEPT ![p].pc = "history",
                                       ![p].was = findById(e),
                                       ![p].res = Hydrate(events'[e], assignments',
                                                          eventTags', e)]
               /\ UNCHANGED <<users, tagRows, attachments, history, nextEventId,
                              nextAttachmentId, nextTagId, nextUserId>>

\* EventRepository.update, line 186: one prisma.event.update whose nested
\* deleteMany/create run in the same transaction as the row update.
RepoWrite(p) ==
    /\ proc[p].pc = "write"
    /\ LET me == proc[p]
           e == me.ev
           err == UpdateError(e, me.req)
       IN IF err # ""
          THEN Done(p, Failure(me.op), err) /\ UNCHANGED db
          ELSE /\ events' = [events EXCEPT ![e] =
                               [ApplyPatch(@, me.req.patch) EXCEPT !.updatedAt = clock + 1]]
               /\ assignments' = {a \in assignments : a.eventId # e} \cup
                     {[eventId |-> e, userId |-> u] :
                        u \in ReplaceLinks(findById(e).assignedUsers, me.req.asg)}
               /\ eventTags' = {a \in eventTags : a.eventId # e} \cup
                     {[eventId |-> e, tagId |-> t] :
                        t \in ReplaceLinks(findById(e).tags, me.req.tgs)}
               /\ clock' = clock + 1
               /\ proc' = [proc EXCEPT ![p].pc = "history",
                                       ![p].was = findById(e),
                                       ![p].res = Hydrate(events'[e], assignments',
                                                          eventTags', e)]
               /\ UNCHANGED <<users, tagRows, attachments, history, nextEventId,
                              nextAttachmentId, nextTagId, nextUserId>>

\* EventRepository.update, line 244: recordEditHistory(id, currentEvent,
\* formatEvent(event), editorId).  The insert is a second transaction; its
\* foreign key on eventId throws when the event is gone by then, and update's
\* catch turns that into null.
RepoHistory(p) ==
    /\ proc[p].pc = "history"
    /\ LET me == proc[p]
           changes == Changes(me.cur, me.res)
       IN IF changes = NoChanges
          THEN Done(p, Success(me.op), "") /\ UNCHANGED db
          ELSE IF me.ev \notin DOMAIN events
          THEN Done(p, Failure(me.op), "P2003_eventId") /\ UNCHANGED db
          ELSE /\ history' = Append(history,
                     [eventId |-> me.ev, changes |-> changes, editedBy |-> me.caller])
               /\ Done(p, Success(me.op), "")
               /\ UNCHANGED <<users, tagRows, events, assignments, eventTags,
                              attachments, clock, nextEventId, nextAttachmentId, nextTagId, nextUserId>>

\* router.delete('/:id') up to the ownership check.
DeleteStart(p, e, caller) ==
    /\ Free(p)
    /\ caller \in DOMAIN users
    /\ LET existing == findById(e)
           me == [Idle EXCEPT !.op = "delete", !.ev = e, !.caller = caller]
       IN proc' = [proc EXCEPT ![p] =
                     IF ~Found(existing)
                     THEN Answer("delete", e, caller, "EVENT_NOT_FOUND", "")
                     ELSE IF ~IsCreator(existing, caller)
                     THEN Answer("delete", e, caller, "INSUFFICIENT_PERMISSIONS", "")
                     ELSE [me EXCEPT !.pc = "delete"]]
    /\ UNCHANGED db

\* What RepoDelete does with a bug that lets the error of prisma.event.delete
\* through to the caller.
RepoDeleteUncaught(p) ==
    /\ proc[p].pc = "delete"
    /\ LET e == proc[p].ev
       IN IF e \notin DOMAIN events
          THEN Done(p, "throws", "P2025") /\ UNCHANGED db
          ELSE /\ events' = Restrict(events, DOMAIN events \ {e})
               /\ assignments' = EventCascade(assignments, {e})
               /\ eventTags' = EventCascade(eventTags, {e})
               /\ attachments' = EventCascade(attachments, {e})
               /\ history' = HistoryCascade(history, {e})
               /\ Done(p, Success(proc[p].op), "")
               /\ UNCHANGED <<users, tagRows, clock, nextEventId, nextAttachmentId, nextTagId, nextUserId>>

\* EventRepository.delete: prisma.event.delete, false when it throws.
RepoDelete(p) ==
    /\ proc[p].pc = "delete"
    /\ LET e == proc[p].ev
       IN IF e \notin DOMAIN events
          THEN Done(p, Failure(proc[p].op), "P2025") /\ UNCHANGED db
          ELSE /\ events' = Restrict(events, DOMAIN events \ {e})
               /\ assignments' = EventCascade(assignments, {e})
               /\ eventTags' = EventCascade(eventTags, {e})
               /\ attachments' = EventCascade(attachments, {e})
               /\ history' = HistoryCascade(history, {e})
               /\ Done(p, Success(proc[p].op), "")
               /\ UNCHANGED <<users, tagRows, clock, nextEventId, nextAttachmentId, nextTagId, nextUserId>>

\* EventRepository.delete called directly: true or false.
DeleteCall(p, e) ==
    /\ Free(p)
    /\ proc' = [proc EXCEPT ![p] = [Idle EXCEPT !.pc = "delete", !.op = "remove", !.ev = e]]
    /\ UNCHANGED db

\* router.get('/:id') and router.get('/'): findById and findAll are one
\* findUnique / findMany with `include`; Prisma loads the row and each
\* included relation with a query of its own, so a write can fall between
\* them.  Of a listing the model follows the entry of event e.
ReadStart(p, e, op) ==
    /\ Free(p)
    /\ proc' = [proc EXCEPT ![p] = [Idle EXCEPT !.pc = "readRow", !.op = op, !.ev = e]]
    /\ UNCHANGED db

\* The query on the events table.
ReadRow(p) ==
    /\ proc[p].pc = "readRow"
    /\ LET e == proc[p].ev
       IN IF e \notin DOMAIN events
          THEN Done(p, IF proc[p].op = "get" THEN "EVENT_NOT_FOUND" ELSE "OK", "")
          ELSE proc' = [proc EXCEPT ![p].pc = "readUsers",
                                    ![p].res = Hydrate(events[e], {}, {}, e)]
    /\ UNCHANGED db

\* The query that loads assignedUsers.
ReadUsers(p) ==
    /\ proc[p].pc = "readUsers"
    /\ proc' = [proc EXCEPT ![p].pc = "readTags",
                            ![p].res.assignedUsers = UsersOf(assignments, proc[p].ev)]
    /\ UNCHANGED db

\* The query that loads tags; formatEvent and the response follow.
ReadTags(p) ==
    /\ proc[p].pc = "readTags"
    /\ proc' = [proc EXCEPT ![p].pc = "done", ![p].resp = "OK",
                            ![p].res.tags = TagsOf(eventTags, proc[p].ev)]
    /\ UNCHANGED db

\* --------------------------------------------- EventRepository listings
\* What Skip does with a bug that counts pages from 0.
SkipFromZero(page, limit) == page * limit

\* const skip = (page - 1) * limit.
Skip(page, limit) == (page - 1) * limit

\* Math.ceil(total / limit); limit is never 0.
Ceil(total, limit) ==
    IF limit < 0 THEN 0 - (total \div (0 - limit))
    ELSE IF total % limit = 0 THEN total \div limit ELSE total \div limit + 1

\* What InRange does with a bug that takes endDate as exclusive.
InRangeOpenEnd(t, q) == t >= q.startDate /\ t < q.endDate

\* where: { timestamp: { gte: startDate, lte: endDate } }.
InRange(t, q) == t >= q.startDate /\ t <= q.endDate

\* The events a listing's where clause selects.
Selected(op, q) ==
    IF op = "findByDateRange"
    THEN {e \in DOMAIN events : InRange(events[e].timestamp, q)}
    ELSE DOMAIN events

\* orderBy: { timestamp: 'desc' }: every order of the events of S in which no
\* event comes before one with a later timestamp; the store is free in how it
\* orders events of equal timestamp.
Ordered(S) ==
    {o \in [1..Cardinality(S) -> S] :
        /\ \A i, j \in 1..Cardinality(S) : i # j => o[i] # o[j]
        /\ \A i, j \in 1..Cardinality(S) :
              i < j => events[o[i]].timestamp >= events[o[j]].timestamp}

\* skip and take applied to an ordered result.
Page(o, skip, take) ==
    IF skip >= Len(o) THEN <<>>
    ELSE SubSeq(o, skip + 1, IF skip + take < Len(o) THEN skip + take ELSE Len(o))

\* EventRepository.findAll(page, limit) or findByDateRange(startDate, endDate,
\* page, limit) is called; `at` notes how many events had been created by then.
ListStart(p, op, q) ==
    /\ Free(p)
    /\ proc' = [proc EXCEPT ![p] =
                  [Idle EXCEPT !.pc = "list", !.op = op, !.q = q, !.at = nextEventId]]
    /\ UNCHANGED db

\* A query parameter as sent: the integer its text starts with, if it starts
\* with one, and the rest of the text ("12abc"); a parameter that is not
\* sent reads as undefined.
NotSent == [lead |-> <<>>, rest |-> "undefined"]

\* parseInt: the leading integer, NaN (<<>> here) when there is none.
parseInt(param) == param.lead

\* value || fallback: NaN and 0 are falsy.
OrElse(value, fallback) ==
    IF value = <<>> \/ value[1] = 0 THEN fallback ELSE value[1]

DefaultPage == 1
DefaultLimit == 20
LimitCap == 100

\* GET /api/events: page and limit are parsed and findAll(page, limit) is
\* called.
GetEvents(p, pageParam, limitParam) ==
    /\ Free(p)
    /\ LET page == OrElse(parseInt(pageParam), DefaultPage)
           limit == Min({OrElse(parseInt(limitParam), DefaultLimit), LimitCap})
       IN proc' = [proc EXCEPT ![p] =
                     [Idle EXCEPT !.pc = "list", !.op = "getEvents",
                                  !.q = [NoQuery EXCEPT !.page = page, !.limit = limit],
                                  !.at = nextEventId]]
    /\ UNCHANGED db

\* After one of the two queries of Promise.all: the other one is left, or
\* the listing returns { data, pagination }.
AfterQuery(me, done) ==
    IF me.pc = "list" THEN [me EXCEPT !.pc = done]
    ELSE [me EXCEPT !.pc = "done", !.resp = "OK",
                    !.totalPages = Ceil(me.total, me.q.limit)]

\* A negative take applied to an ordered result skipped from its end: the
\* last -take of what is left, in the order of the result.
PageBack(o, skip, take) ==
    IF skip >= Len(o) THEN <<>>
    ELSE SubSeq(o, IF Len(o) - skip + take < 0 THEN 1 ELSE Len(o) - skip + take + 1,
                Len(o) - skip)

\* The prisma.event.findMany of the listing; the store rejects a negative
\* skip, the listing throws and the route answers 500.
FindMany(p) ==
    /\ proc[p].pc \in {"list", "counted"}
    /\ LET skip == Skip(proc[p].q.page, proc[p].q.limit)
           take == proc[p].q.limit
       IN IF skip < 0
          THEN Done(p, "INTERNAL_SERVER_ERROR", "skip")
          ELSE \E o \in Ordered(Selected(proc[p].op, proc[p].q)) :
                  proc' = [proc EXCEPT ![p] =
                             AfterQuery([proc[p] EXCEPT
                                           !.data = IF take >= 0 THEN Page(o, skip, take)
                                                    ELSE PageBack(o, skip, take)],
                                        "found")]
    /\ UNCHANGED db

\* The prisma.event.count of the listing.
Count(p) ==
    /\ proc[p].pc \in {"list", "found"}
    /\ proc' = [proc EXCEPT ![p] =
                  AfterQuery([proc[p] EXCEPT
                                !.total = Cardinality(Selected(proc[p].op, proc[p].q))],
                             "counted")]
    /\ UNCHANGED db

\* ------------------------------------------------------------- search
\* The search of section 4.4 of the specification (GET /api/events/search is
\* designed and declared, not written): the events are narrowed by one filter
\* after the other.  A free-text query matches on title or content.
ByQuery(S, f) ==
    IF f.query = Undefined THEN S
    ELSE {e \in S : events[e].title = f.query \/ events[e].content = f.query}

\* What ByTags does with a bug that reads an absent list as an empty one.
ByTagsAbsentIsEmpty(S, f) ==
    {e \in S : TagsOf(eventTags, e) \cap Range(f.tags.ids) # {}}

ByTags(S, f) ==
    IF ~f.tags.present THEN S
    ELSE {e \in S : TagsOf(eventTags, e) \cap Range(f.tags.ids) # {}}

\* users matches the creator or any assignee.
ByUsers(S, f) ==
    IF ~f.users.present THEN S
    ELSE {e \in S : \/ events[e].creatorId \in Range(f.users.ids)
                    \/ UsersOf(assignments, e) \cap Range(f.users.ids) # {}}

ByTypes(S, f) ==
    IF ~f.types.present THEN S
    ELSE {e \in S : events[e].type \in Range(f.types.ids)}

ByDates(S, f) ==
    {e \in S : /\ f.startDate # Undefined => events[e].timestamp >= f.startDate
               /\ f.endDate # Undefined => events[e].timestamp <= f.endDate}

SearchEvents(p, f) ==
    /\ Free(p)
    /\ proc' = [proc EXCEPT ![p] =
                  [Answer("search", NoEvent, "", "OK", "") EXCEPT
                     !.f = f,
                     !.hits = ByDates(ByTypes(ByUsers(ByTags(ByQuery(DOMAIN events, f),
                                                             f), f), f), f)]]
    /\ UNCHANGED db

\* ------------------------------------------------------ TagRepository
\* Tag.id is @default(cuid()): the id of the n-th tag the store mints.
Cuid(n) == "c" \o ToString(n)

\* The ids of the tags that carry one of the names.
IdsOfNames(S) == {t \in DOMAIN tagRows : tagRows[t].name \in S}
NamesOf(T) == {tagRows[t].name : t \in T}

\* TagRepository.createMultiple(tagNames) is called.
BatchStart(p, tagNames) ==
    /\ Free(p)
    /\ proc' = [proc EXCEPT ![p] =
                  [Idle EXCEPT !.pc = "findByNames", !.op = "batch", !.names = tagNames]]
    /\ UNCHANGED db

\* createMultiple, lines 98-105: findByNames, then the names that no found
\* tag carries, in the order and as many times as the caller gave them;
\* the found tags are the answer when no name is left.
FindByNames(p) ==
    /\ proc[p].pc = "findByNames"
    /\ LET existingTags == IdsOfNames(Range(proc[p].names))
           IsNew(n) == n \notin NamesOf(existingTags)
           newTagNames == SelectSeq(proc[p].names, IsNew)
       IN proc' = [proc EXCEPT ![p] =
                     IF Len(newTagNames) = 0
                     THEN [@ EXCEPT !.pc = "done", !.found = existingTags,
                                    !.resp = "tags"]
                     ELSE [@ EXCEPT !.pc = "creating", !.found = existingTags,
                                    !.todo = newTagNames,
                                    !.left = 1..Len(newTagNames)]]
    /\ UNCHANGED db

\* createMultiple, lines 108-115: Promise.all starts one TagRepository.create
\* per name left and the store runs them in an order of its own; this is the
\* k-th of them, with the colour getRandomColor drew.  Tag.name is @unique:
\* the create of a name that a tag carries by now rejects, and the first
\* rejection rejects the call, while the creates still in flight go on.
CreateTag(p, k, color) ==
    /\ proc[p].pc \in {"creating", "settling"}
    /\ k \in proc[p].left
    /\ LET me == proc[p]
           left == me.left \ {k}
           taken == IdsOfNames({me.todo[k]}) # {}
           pc == IF left = {} THEN "done"
                 ELSE IF taken THEN "settling" ELSE me.pc
           resp == IF me.pc = "settling" THEN me.resp
                   ELSE IF taken THEN "throws"
                   ELSE IF left = {} THEN "tags" ELSE ""
       IN IF taken
          THEN /\ proc' = [proc EXCEPT ![p].pc = pc, ![p].left = left,
                                       ![p].resp = resp,
                                       ![p].err = IF me.err = "" THEN "P2002" ELSE me.err]
               /\ UNCHANGED db
          ELSE /\ tagRows' = [t \in DOMAIN tagRows \cup {Cuid(nextTagId)} |->
                                IF t = Cuid(nextTagId)
                                THEN [name |-> me.todo[k], color |-> color]
                                ELSE tagRows[t]]
               /\ nextTagId' = nextTagId + 1
               /\ proc' = [proc EXCEPT ![p].pc = pc, ![p].left = left,
                                       ![p].resp = resp,
                                       ![p].made = me.made \cup {Cuid(nextTagId)}]
               /\ UNCHANGED <<users, events, assignments, eventTags, attachments,
                              history, clock, nextEventId, nextAttachmentId, nextUserId>>

\* ------------------------------------------------- other writers of the store
\* TagRepository.delete: prisma.tag.delete; EventTag.tag is onDelete: Cascade.
DeleteTag(t) ==
    /\ t \in DOMAIN tagRows
    /\ tagRows' = Restrict(tagRows, DOMAIN tagRows \ {t})
    /\ eventTags' = TagCascade(eventTags, t)
    /\ UNCHANGED <<users, events, assignments, attachments, history, clock,
                   nextEventId, nextAttachmentId, nextTagId, nextUserId, proc>>

\* What OwnedBy does with a bug that loses the creator relation's cascade.
OwnedByNobody(u) == {}

\* The events a user deletion takes with it: Event.creator is onDelete: Cascade.
OwnedBy(u) == {e \in DOMAIN events : events[e].creatorId = u}

\* UserRepository.delete: prisma.user.delete; EventUserAssignment.user and
\* Event.creator are onDelete: Cascade, and the deleted events cascade on.
DeleteUser(u) ==
    /\ u \in DOMAIN users
    /\ users' = Restrict(users, DOMAIN users \ {u})
    /\ events' = Restrict(events, DOMAIN events \ OwnedBy(u))
    /\ assignments' = UserCascade(EventCascade(assignments, OwnedBy(u)), u)
    /\ eventTags' = EventCascade(eventTags, OwnedBy(u))
    /\ attachments' = EventCascade(attachments, OwnedBy(u))
    /\ history' = HistoryCascade(history, OwnedBy(u))
    /\ UNCHANGED <<tagRows, clock, nextEventId, nextAttachmentId, nextTagId, nextUserId, proc>>

\* An attachment row is inserted for an event: Attachment.event is a required
\* relation, so the insert needs the event to exist.
AddAttachment(e) ==
    /\ e \in DOMAIN events
    /\ nextAttachmentId <= MaxAttachments
    /\ attachments' = attachments \cup {[id |-> nextAttachmentId, eventId |-> e]}
    /\ nextAttachmentId' = nextAttachmentId + 1
    /\ UNCHANGED <<users, tagRows, events, assignments, eventTags, history, clock,
                   nextEventId, nextTagId, nextUserId, proc>>

\* ------------------------------------------------- users and credentials
\* bcrypt.hash(password, 10): the hash carries the salt it was made with.
Salts == {"a", "b"}
Hash(password, salt) == "$2b$10$" \o salt \o "$" \o password

\* bcrypt.compare(password, hash): the password hashed with some salt.
Compare(password, hash) == \E salt \in Salts : hash = Hash(password, salt)

\* The password the users of the initial state registered with.
FirstPassword == "password1"

\* A user row as a query without select returns it.
UserRow(u) ==
    [id |-> u, username |-> users[u].username, email |-> users[u].email,
     password |-> users[u].password]

\* const { password: _, ...userWithoutPassword } = user
WithPassword(user) == user
WithoutPassword(user) == [f \in DOMAIN user \ {"password"} |-> user[f]]

ByEmail(email) == {u \in DOMAIN users : users[u].email = email}
ByUsername(username) == {u \in DOMAIN users : users[u].username = username}

\* POST /api/users or POST /api/auth/register with a body that passes
\* validation.
RegisterStart(p, op, username, email, password) ==
    /\ Free(p)
    /\ proc' = [proc EXCEPT ![p] =
                  [Idle EXCEPT !.pc = "existsByEmail", !.op = op, !.name = username,
                               !.email = email, !.password = password]]
    /\ UNCHANGED db

\* userRepository.existsByEmail and the handler's answer to it.
ExistsByEmail(p) ==
    /\ proc[p].pc = "existsByEmail"
    /\ IF ByEmail(proc[p].email) # {}
       THEN Done(p, "EMAIL_ALREADY_EXISTS", "")
       ELSE proc' = [proc EXCEPT ![p].pc = "existsByUsername"]
    /\ UNCHANGED db

\* userRepository.existsByUsername and the handler's answer to it.
ExistsByUsername(p) ==
    /\ proc[p].pc = "existsByUsername"
    /\ IF ByUsername(proc[p].name) # {}
       THEN Done(p, "USERNAME_ALREADY_EXISTS", "")
       ELSE proc' = [proc EXCEPT ![p].pc = "userCreate"]
    /\ UNCHANGED db

\* UserRepository.create: the password is hashed and prisma.user.create
\* inserts the row; User.username and User.email are @unique, and the
\* handler's catch answers a rejected insert.
UserCreate(p) ==
    /\ proc[p].pc = "userCreate"
    /\ IF ByEmail(proc[p].email) \cup ByUsername(proc[p].name) # {}
       THEN /\ Done(p, IF proc[p].op = "userCreate" THEN "throws"
                       ELSE "INTERNAL_SERVER_ERROR", "P2002")
            /\ UNCHANGED db
       ELSE \E salt \in Salts :
            LET row == [username |-> proc[p].name, email |-> proc[p].email,
                        password |-> Hash(proc[p].password, salt)]
                id == Cuid(nextUserId)
            IN  /\ users' = [u \in DOMAIN users \cup {id} |->
                              IF u = id THEN row ELSE users[u]]
                /\ nextUserId' = nextUserId + 1
                /\ proc' = [proc EXCEPT ![p] =
                              [Answer(proc[p].op, NoEvent, "", "CREATED", "")
                                 EXCEPT !.user = {[id |-> id, username |-> row.username,
                                                   email |-> row.email]}]]
                /\ UNCHANGED <<tagRows, events, assignments, eventTags, attachments,
                               history, clock, nextEventId, nextAttachmentId, nextTagId>>

\* UserRepository.create called directly, as the repository's tests do.
UserCreateCall(p, username, email, password) ==
    /\ Free(p)
    /\ proc' = [proc EXCEPT ![p] =
                  [Idle EXCEPT !.pc = "userCreate", !.op = "userCreate", !.name = username,
                               !.email = email, !.password = password]]
    /\ UNCHANGED db

\* UserRepository.update(id, userData) is called.
UserUpdateCall(p, u, userData) ==
    /\ Free(p)
    /\ proc' = [proc EXCEPT ![p] =
                  [Idle EXCEPT !.pc = "userUpdate", !.op = "userUpdate", !.id = u,
                               !.set = userData]]
    /\ UNCHANGED db

\* if (userData.password): the empty string is falsy.
Truthy(text) == text # ""

\* updateData: a copy of userData whose password, if truthy, is hashed.
UpdateData(userData, salt) ==
    IF "password" \in userData.given /\ Truthy(userData.password)
    THEN [userData EXCEPT !.password = Hash(@, salt)] ELSE userData

\* UserRepository.update: prisma.user.update with updateData, null when it
\* throws.
UserUpdate(p) ==
    /\ proc[p].pc = "userUpdate"
    /\ LET u == proc[p].id
       IN IF u \notin DOMAIN users
          THEN Done(p, "null", "P2025") /\ UNCHANGED db
          ELSE \E salt \in Salts :
               LET updateData == UpdateData(proc[p].set, salt)
               IN  /\ users' = [users EXCEPT ![u].password =
                                   IF "password" \in updateData.given
                                   THEN updateData.password ELSE @]
                   /\ proc' = [proc EXCEPT ![p] =
                                 [proc[p] EXCEPT !.pc = "done", !.resp = "user"]]
                   /\ UNCHANGED <<tagRows, events, assignments, eventTags, attachments,
                                  history, clock, nextEventId, nextAttachmentId, nextTagId,
                                  nextUserId>>

\* POST /api/auth/login with a body that passes validation.
LoginStart(p, email, password) ==
    /\ Free(p)
    /\ proc' = [proc EXCEPT ![p] =
                  [Idle EXCEPT !.pc = "findByEmail", !.op = "login",
                               !.email = email, !.password = password]]
    /\ UNCHANGED db

\* The login handler answers; the record keeps what the request was.
LoginAnswer(me, resp, user) ==
    [Answer("login", NoEvent, "", resp, "")
       EXCEPT !.email = me.email, !.password = me.password, !.user = user]

\* verifyPassword: findByEmailWithPassword, null when there is no such user;
\* the login handler answers null with 401.
FindByEmailWithPassword(p) ==
    /\ proc[p].pc = "findByEmail"
    /\ IF ByEmail(proc[p].email) = {}
       THEN proc' = [proc EXCEPT ![p] = LoginAnswer(proc[p], "INVALID_CREDENTIALS", {})]
       ELSE proc' = [proc EXCEPT ![p].pc = "compare",
                                 ![p].row = {UserRow(u) : u \in ByEmail(proc[p].email)}]
    /\ UNCHANGED db

\* verifyPassword: bcrypt.compare against the row that was read, null when
\* it fails, else the row without its password.
BcryptCompare(p) ==
    /\ proc[p].pc = "compare"
    /\ \E user \in proc[p].row :
          IF ~Compare(proc[p].password, user.password)
          THEN proc' = [proc EXCEPT ![p] = LoginAnswer(proc[p], "INVALID_CREDENTIALS", {})]
          ELSE proc' = [proc EXCEPT ![p] =
                          LoginAnswer(proc[p], "OK", {WithoutPassword(user)})]
    /\ UNCHANGED db

\* --------------------------------------------- middleware and validation
\* generateToken: the payload carries the user's id, signed with JWT_SECRET.
generateToken(u) == [userId |-> u, secret |-> JWT_SECRET, expired |-> FALSE]

\* What verifyToken does with a bug that decodes without verifying.
verifyTokenUnverified(token) == {[userId |-> token.userId]}

\* verifyToken: the decoded payload, null ({} here) when jwt.verify throws.
verifyToken(token) ==
    IF token.secret = JWT_SECRET /\ ~token.expired THEN {[userId |-> token.userId]} ELSE {}

\* authHeader && authHeader.split(' ')[1]
TokenOf(header) == IF header.words >= 2 THEN header.token ELSE NoToken

\* The middleware each route is mounted behind.
Middleware(op) ==
    CASE op \in {"post", "put"} -> "authenticateToken"
      [] op = "tagPost" -> "optionalAuth"
      [] OTHER -> "none"

\* z.string().min(1).max(255) of title, z.string().min(1) of content.
MaxTitle == 255
TitleOkNoMax(t) == t.given /\ t.len >= 1
TitleOk(t) == t.given /\ t.len >= 1 /\ t.len <= MaxTitle
ContentOk(c) == c.given /\ c.len >= 1

EventTypes == {"SIMPLE_MESSAGE", "PHOTO_WITH_NOTES", "EMAIL", "TEXT", "DOCUMENT"}

\* z.string().cuid(): the ids of the model that are no cuid.
NotCuid == {"not-a-cuid"}
IdsOk(list) == \A i \in 1..Len(list.ids) : list.ids[i] \notin NotCuid

\* The strings of the model that match /^#[0-9A-Fa-f]{6}$/, the tag names
\* that match /^[a-zA-Z0-9\s-_]+$/, the usernames that match
\* /^[a-zA-Z0-9_]+$/ and the strings that are an email address.
HexColors == {"#3B82F6", "#EF4444", "#10B981"}
WordNames == {"t1", "urgent", "bug"}
WordUsernames == {"u1", "ann"}
EmailAddresses == {"u1", "ann@x.org"}
MinPassword == 8

CreateEventSchema(b) ==
    /\ TitleOk(b.title) /\ ContentOk(b.content)
    /\ b.type \in EventTypes
    /\ IdsOk(b.ids)

UpdateEventSchema(b) ==
    /\ b.title.given => TitleOk(b.title)
    /\ b.content.given => ContentOk(b.content)
    /\ b.type # "" => b.type \in EventTypes
    /\ IdsOk(b.ids)

CreateTagSchema(b) ==
    /\ b.name \in WordNames
    /\ b.color # "" => b.color \in HexColors

CreateUserSchema(b) ==
    /\ b.name \in WordUsernames
    /\ b.email \in EmailAddresses
    /\ Len(b.password) >= MinPassword

\* safeParse of the route's schema on req.body.
Valid(op, b) ==
    CASE op = "post" -> CreateEventSchema(b)
      [] op = "put" -> UpdateEventSchema(b)
      [] op = "tagPost" -> CreateTagSchema(b)
      [] OTHER -> CreateUserSchema(b)

\* validation.data of an event body, as the request the handler goes on with.
ToReq(b) ==
    [patch |-> [title |-> IF b.title.given THEN 1 ELSE Undefined,
                content |-> IF b.content.given THEN 1 ELSE Undefined,
                type |-> IF b.type # "" THEN 1 ELSE Undefined,
                timestamp |-> Undefined],
     asg |-> b.ids, tgs |-> Absent]

\* The request ends in the middleware or at the validation: the answer.
Refuse(me, resp) == [me EXCEPT !.pc = "done", !.resp = resp]

\* A request arrives: the middleware runs up to its first await.
Arrive(p, op, e, header, body) ==
    /\ Free(p)
    /\ LET me == [Idle EXCEPT !.op = op, !.ev = e, !.header = header, !.body = body]
           token == TokenOf(header)
       IN proc' = [proc EXCEPT ![p] =
                     CASE Middleware(op) = "none" -> [me EXCEPT !.pc = "handler"]
                       [] Middleware(op) = "optionalAuth" ->
                            IF token # NoToken /\ verifyToken(token) # {}
                            THEN [me EXCEPT !.pc = "authFind"]
                            ELSE [me EXCEPT !.pc = "handler"]
                       [] OTHER ->
                            IF token = NoToken THEN Refuse(me, "MISSING_TOKEN")
                            ELSE IF verifyToken(token) = {} THEN Refuse(me, "INVALID_TOKEN")
                            ELSE [me EXCEPT !.pc = "authFind"]]
    /\ UNCHANGED db

\* authenticateToken / optionalAuth: userRepository.findById(decoded.userId);
\* req.user is set and next() called, or authenticateToken answers 403.
AuthFind(p) ==
    /\ proc[p].pc = "authFind"
    /\ LET me == [proc[p] EXCEPT !.calls = @ + 1]
           id == TokenOf(me.header).userId
       IN proc' = [proc EXCEPT ![p] =
                     IF id \in DOMAIN users
                     THEN [me EXCEPT !.pc = "handler", !.caller = id,
                                     !.user = {[id |-> id, username |-> users[id].username,
                                                email |-> users[id].email]}]
                     ELSE IF Middleware(me.op) = "authenticateToken"
                     THEN Refuse(me, "USER_NOT_FOUND")
                     ELSE [me EXCEPT !.pc = "handler"]]
    /\ UNCHANGED db

\* The handler up to its first await: safeParse, 400 VALIDATION_ERROR when
\* it fails, else the route goes on as PostStart, PutStart, TagPostStart and
\* RegisterStart say.
Handle(p) ==
    /\ proc[p].pc = "handler"
    /\ LET me == proc[p]
           b == me.body
           existing == findById(me.ev)
       IN proc' = [proc EXCEPT ![p] =
            IF ~Valid(me.op, b) THEN Refuse(me, "VALIDATION_ERROR")
            ELSE CASE me.op = "post" ->
                        [Idle EXCEPT !.pc = AfterStart("create", ToReq(b)), !.op = "post",
                                     !.caller = me.caller, !.req = ToReq(b), !.i = 1]
                   [] me.op = "put" ->
                        IF ~Found(existing)
                        THEN Answer("put", me.ev, me.caller, "EVENT_NOT_FOUND", "")
                        ELSE IF ~IsCreator(existing, me.caller)
                        THEN Answer("put", me.ev, me.caller, "INSUFFICIENT_PERMISSIONS", "")
                        ELSE [Idle EXCEPT !.pc = AfterStart("update", ToReq(b)), !.op = "put",
                                          !.ev = me.ev, !.caller = me.caller,
                                          !.req = ToReq(b), !.i = 1]
                   [] me.op = "tagPost" ->
                        [Idle EXCEPT !.pc = "existsByName", !.op = "tagPost",
                                     !.name = b.name, !.color = b.color]
                   [] OTHER ->
                        [Idle EXCEPT !.pc = "existsByEmail", !.op = me.op, !.name = b.name,
                                     !.email = b.email, !.password = b.password]]
    /\ UNCHANGED db

\* ------------------------------------------------------------ the store
\* The store the event handlers run against: the users and tags exist, no
\* event has been created yet.
Init ==
    /\ users = [u \in UserIds |->
                  [username |-> u, email |-> u, password |-> Hash(FirstPassword, "a")]]
    /\ tagRows = [t \in TagIds |-> [name |-> t, color |-> "#3B82F6"]]
    /\ events = [e \in {} |-> NoRow]
    /\ assignments = {}
    /\ eventTags = {}
    /\ attachments = {}
    /\ history = <<>>
    /\ clock = 0
    /\ nextEventId = 1
    /\ nextAttachmentId = 1
    /\ nextTagId = 1
    /\ nextUserId = 1
    /\ proc = [p \in Procs |-> Idle]

\* Requests that are being served and will still write an event row.
Writers == {p \in Procs : proc[p].pc \in {"checkUsers", "checkTags", "create", "update", "write"}}
Creators == {p \in Writers : proc[p].op \in {"post", "create"}}

\* A run is cut off after maxClock event writes and maxEvents events.
MayWrite(maxClock) == clock + Cardinality(Writers) < maxClock
MayCreate(maxEvents) == nextEventId + Cardinality(Creators) <= maxEvents

IdLists(S) == {Absent} \cup {Ids(s) : s \in SeqsUpTo(S, MaxIds)}
UserLists == IdLists(UserIds)
TagLists == IdLists(TagIds)

FirstPatch == [title |-> 1, content |-> 1, type |-> 1, timestamp |-> Undefined]
TitlePatch(v) == [NoPatch EXCEPT !.title = v]

\* ------------------------------------------------------------------ Spec
\* Two events, their rows in every table, and every way of deleting them:
\* p1 calls EventRepository.create and update, p2 calls EventRepository.delete,
\* users and tags are deleted and attachments inserted at any moment.
OwnReqs ==
    {[patch |-> TitlePatch(2), asg |-> a, tgs |-> t] :
        a \in {Absent, Ids(<<"u2">>)}, t \in {Absent, Ids(<<"t1", "t2">>)}}

NewReqs == {[r EXCEPT !.patch = FirstPatch] : r \in OwnReqs}

Next ==
    \/ \E creator \in UserIds, req \in NewReqs :
          MayWrite(MaxClock) /\ MayCreate(MaxEvents) /\ CreateStart("p1", creator, req)
    \/ \E e \in EventIds, req \in OwnReqs :
          MayWrite(MaxClock) /\ UpdateStart("p1", e, "u1", req)
    \/ \E e \in EventIds : DeleteCall("p2", e)
    \/ \E p \in Procs : RepoCreate(p) \/ RepoFind(p) \/ RepoWrite(p) \/ RepoHistory(p)
                           \/ RepoDelete(p)
    \/ \E t \in TagIds : DeleteTag(t)
    \/ \E u \in UserIds : DeleteUser(u)
    \/ \E e \in EventIds : AddAttachment(e)

Spec == Init /\ [][Next]_vars

\* ------------------------------------------------------------- SpecLinks
\* The /api/events handlers with every assignedUserIds and tagIds list of up
\* to MaxIds ids, duplicates included, while users and tags are deleted.
\* A request supplies either list in every form, or one id in both.
LinkReqs ==
    {[patch |-> NoPatch, asg |-> a, tgs |-> Absent] : a \in UserLists}
    \cup {[patch |-> NoPatch, asg |-> Absent, tgs |-> t] : t \in TagLists}
    \cup {[patch |-> NoPatch, asg |-> Ids(<<u>>), tgs |-> Ids(<<t>>)] :
            u \in UserIds, t \in TagIds}

NewLinkReqs ==
    {[patch |-> FirstPatch, asg |-> a, tgs |-> t] :
        a \in {Ids(<<>>), Ids(<<"u2">>), Ids(<<"u2", "u2">>)},
        t \in {Ids(<<>>), Ids(<<"t1", "t2">>)}}

NextLinks ==
    \/ \E caller \in UserIds, req \in NewLinkReqs :
          MayWrite(MaxClock) /\ MayCreate(MaxTracked) /\ PostStart("p1", caller, req)
    \/ \E e \in 1..MaxTracked, caller \in UserIds, req \in LinkReqs :
          MayWrite(MaxClock) /\ PutStart("p1", e, caller, req)
    \/ CheckUser("p1")
    \/ CheckTag("p1")
    \/ RepoCreate("p1")
    \/ RepoFind("p1")
    \/ RepoWrite("p1")
    \/ RepoHistory("p1")
    \/ \E t \in TagIds : DeleteTag(t)
    \/ \E u \in UserIds : DeleteUser(u)

SpecLinks == Init /\ [][NextLinks]_vars

\* -------------------------------------------------------------- SpecEdit
\* Two callers of EventRepository.update on one event, each with its own
\* editor id: p1 supplies up to MaxSupplied scalars, p2 at most one scalar and
\* each possibly a tagIds list of its own.
Supplied(pt) == {f \in Fields : pt[f] # Undefined}

Patches(n) == {pt \in [Fields -> 0..MaxValue] : Cardinality(Supplied(pt)) <= n}

EditReqs1 ==
    {[patch |-> pt, asg |-> Absent, tgs |-> t] :
        pt \in Patches(MaxSupplied), t \in {Absent, Ids(<<"t2">>)}}

EditReqs2 ==
    {[patch |-> pt, asg |-> Absent, tgs |-> t] :
        pt \in Patches(1), t \in {Absent, Ids(<<>>), Ids(<<"t1">>)}}

FirstReq == [patch |-> FirstPatch, asg |-> Ids(<<"u2">>), tgs |-> Ids(<<"t1">>)]

NextEdit ==
    \/ MayWrite(MaxClock) /\ MayCreate(MaxTracked) /\ CreateStart("p1", "u1", FirstReq)
    \/ \E e \in 1..MaxTracked, req \in EditReqs1 :
          MayWrite(MaxClock) /\ UpdateStart("p1", e, "u1", req)
    \/ \E e \in 1..MaxTracked, req \in EditReqs2 :
          MayWrite(MaxClock) /\ UpdateStart("p2", e, "u2", req)
    \/ \E p \in Procs : RepoCreate(p) \/ RepoFind(p) \/ RepoWrite(p) \/ RepoHistory(p)

SpecEdit == Init /\ [][NextEdit]_vars

\* ------------------------------------------------------- /api/tags
\* An optional string of a request body that is left out.
Omitted == ""

\* The color column of a tag stored without a color.
Null == "null"

\* TagRepository.create: prisma.tag.create with the name and the color as
\* given; an omitted color is stored as null.
NewTag(name, color) == [name |-> name, color |-> IF color = Omitted THEN Null ELSE color]

\* router.post('/') of the tags: the body passed CreateTagSchema.
TagPostStart(p, name, color) ==
    /\ Free(p)
    /\ proc' = [proc EXCEPT ![p] =
                  [Idle EXCEPT !.pc = "existsByName", !.op = "tagPost",
                               !.name = name, !.color = color]]
    /\ UNCHANGED db

\* router.put('/:id') of the tags up to its name check: findById, 404 when
\* the tag is absent; existsByName is asked only when the name changes.
TagPutStart(p, t, name, color) ==
    /\ Free(p)
    /\ LET me == [Idle EXCEPT !.op = "tagPut", !.tag = t, !.name = name, !.color = color]
       IN proc' = [proc EXCEPT ![p] =
                     IF t \notin DOMAIN tagRows
                     THEN [me EXCEPT !.pc = "done", !.resp = "TAG_NOT_FOUND"]
                     ELSE IF name # Omitted /\ name # tagRows[t].name
                     THEN [me EXCEPT !.pc = "existsByName"]
                     ELSE [me EXCEPT !.pc = "tagUpdate"]]
    /\ UNCHANGED db

\* tagRepository.existsByName and the 409 of either handler.
ExistsByName(p) ==
    /\ proc[p].pc = "existsByName"
    /\ proc' = [proc EXCEPT ![p] =
                  IF IdsOfNames({proc[p].name}) # {}
                  THEN [@ EXCEPT !.pc = "done", !.resp = "TAG_ALREADY_EXISTS"]
                  ELSE [@ EXCEPT !.pc = IF proc[p].op = "tagPost" THEN "tagCreate"
                                        ELSE "tagUpdate"]]
    /\ UNCHANGED db

\* tagRepository.create from router.post('/'): Tag.name is @unique, and the
\* handler's catch answers 500 when the create throws.
TagCreate(p) ==
    /\ proc[p].pc = "tagCreate"
    /\ IF IdsOfNames({proc[p].name}) # {}
       THEN /\ proc' = [proc EXCEPT ![p].pc = "done",
                                    ![p].resp = "INTERNAL_SERVER_ERROR",
                                    ![p].err = "P2002"]
            /\ UNCHANGED db
       ELSE /\ tagRows' = [t \in DOMAIN tagRows \cup {Cuid(nextTagId)} |->
                             IF t = Cuid(nextTagId)
                             THEN NewTag(proc[p].name, proc[p].color)
                             ELSE tagRows[t]]
            /\ nextTagId' = nextTagId + 1
            /\ proc' = [proc EXCEPT ![p].pc = "done", ![p].resp = "CREATED",
                                    ![p].tag = Cuid(nextTagId)]
            /\ UNCHANGED <<users, events, assignments, eventTags, attachments,
                           history, clock, nextEventId, nextAttachmentId, nextUserId>>

\* tagRepository.update from router.put('/:id'): prisma.tag.update with the
\* fields given; null when it throws (the tag is gone, the name is taken),
\* which the handler answers with UPDATE_FAILED.
TagUpdate(p) ==
    /\ proc[p].pc = "tagUpdate"
    /\ LET me == proc[p]
           err == IF me.tag \notin DOMAIN tagRows THEN "P2025"
                  ELSE IF me.name # Omitted /\ IdsOfNames({me.name}) \ {me.tag} # {}
                  THEN "P2002" ELSE ""
       IN IF err # ""
          THEN /\ proc' = [proc EXCEPT ![p].pc = "done", ![p].resp = "UPDATE_FAILED",
                                       ![p].err = err]
               /\ UNCHANGED db
          ELSE /\ tagRows' = [tagRows EXCEPT ![me.tag] =
                                [name |-> IF me.name # Omitted THEN me.name ELSE @.name,
                                 color |-> IF me.color # Omitted THEN me.color ELSE @.color]]
               /\ proc' = [proc EXCEPT ![p].pc = "done", ![p].resp = "OK"]
               /\ UNCHANGED <<users, events, assignments, eventTags, attachments,
                              history, clock, nextEventId, nextAttachmentId, nextTagId, nextUserId>>

\* _count.events of a tag: its EventTag rows.
EventCount(t) == Cardinality({a \in eventTags : a.tagId = t})

\* orderBy: { events: { _count: 'desc' } }: every order of the tags in which
\* no tag comes before one with more events; the query names no second key,
\* so the store is free in how it orders tags of equal count.
PopularOrders ==
    {o \in [1..Cardinality(DOMAIN tagRows) -> DOMAIN tagRows] :
        /\ \A i, j \in DOMAIN o : i # j => o[i] # o[j]
        /\ \A i, j \in DOMAIN o : i < j => EventCount(o[i]) >= EventCount(o[j])}

\* TagRepository.getPopularTags(limit): one findMany with take: limit, each
\* tag mapped to its columns and eventCount.
GetPopularTags(p, limit) ==
    /\ Free(p)
    /\ \E o \in PopularOrders :
          LET top == Page(o, 0, limit)
          IN  proc' = [proc EXCEPT ![p] =
                         [Idle EXCEPT !.pc = "done", !.op = "getPopularTags",
                                      !.q = [NoQuery EXCEPT !.limit = limit],
                                      !.data = [i \in DOMAIN top |->
                                                  [id |-> top[i],
                                                   name |-> tagRows[top[i]].name,
                                                   eventCount |-> EventCount(top[i])]],
                                      !.resp = "OK"]]
    /\ UNCHANGED db

\* -------------------------------------------------------------- SpecRead
\* One caller of EventRepository.update that replaces the tags or the assigned
\* users of an event, and one reader of that event, by id or in the listing.
ReadReqs ==
    {[patch |-> TitlePatch(2), asg |-> a, tgs |-> t] :
        a \in {Absent, Ids(<<"u1">>)},
        t \in {Absent, Ids(<<>>), Ids(<<"t2">>), Ids(<<"t1", "t2">>)}}

NextRead ==
    \/ MayWrite(MaxClock) /\ MayCreate(MaxTracked) /\ CreateStart("p1", "u1", FirstReq)
    \/ \E e \in 1..MaxTracked, req \in ReadReqs :
          MayWrite(MaxClock) /\ UpdateStart("p1", e, "u1", req)
    \/ RepoCreate("p1")
    \/ RepoFind("p1")
    \/ RepoWrite("p1")
    \/ RepoHistory("p1")
    \/ \E e \in 1..MaxTracked, op \in {"get", "list"} : ReadStart("p2", e, op)
    \/ ReadRow("p2")
    \/ ReadUsers("p2")
    \/ ReadTags("p2")

SpecRead == Init /\ [][NextRead]_vars

\* -------------------------------------------------------------- SpecTags
\* TagRepository.createMultiple called with a list of up to MaxNames names,
\* of tags that exist and of tags that do not, and called again with the same
\* list once the first call has answered.
TagNames == {"t1", "urgent", "bug"}
NameLists == SeqsUpTo(TagNames, MaxNames)

\* getRandomColor's palette.
Palette ==
    {"#3B82F6", "#EF4444", "#10B981", "#F59E0B", "#8B5CF6", "#EC4899", "#06B6D4",
     "#84CC16", "#F97316", "#6366F1"}

\* The colours getRandomColor draws in a run: the first two of the palette.
Colors == {"#3B82F6", "#EF4444"}

Answered(p) == proc[p].op = "batch" /\ proc[p].resp # ""

NextTags ==
    \/ \E tagNames \in NameLists :
          proc["p1"].pc = "idle" /\ BatchStart("p1", tagNames)
    \/ proc["p2"].pc = "idle" /\ Answered("p1") /\ BatchStart("p2", proc["p1"].names)
    \/ \E p \in Procs : FindByNames(p)
    \/ \E p \in Procs, k \in 1..MaxNames, color \in Colors : CreateTag(p, k, color)

SpecTags == Init /\ [][NextTags]_vars

\* -------------------------------------------------------------- SpecList
\* Up to MaxListed events with timestamps of the caller's choosing, and the
\* paginated listings findAll and findByDateRange run against them.
ListedReqs ==
    {[patch |-> [FirstPatch EXCEPT !.timestamp = t], asg |-> Absent, tgs |-> Absent] :
        t \in Values}

PageQueries ==
    {[NoQuery EXCEPT !.page = pg, !.limit = l] : pg \in 1..MaxPage, l \in 1..MaxLimit}

RangeQueries ==
    {[qq EXCEPT !.startDate = a, !.endDate = b] :
        qq \in PageQueries, a \in Values, b \in Values}

NextList ==
    \/ \E req \in ListedReqs : MayCreate(MaxListed) /\ CreateStart("p1", "u1", req)
    \/ RepoCreate("p1")
    \/ \E q \in PageQueries : ListStart("p2", "findAll", q)
    \/ \E q \in RangeQueries : ListStart("p2", "findByDateRange", q)
    \/ FindMany("p2")
    \/ Count("p2")

SpecList == Init /\ [][NextList]_vars

\* ------------------------------------------------------------ SpecSearch
\* Events of either title, type and timestamp, with or without a tag and an
\* assigned user, and searches that supply up to two of the six filters.
SearchedReqs ==
    {[patch |-> [FirstPatch EXCEPT !.title = ti, !.type = ty, !.timestamp = ts],
      asg |-> a, tgs |-> t] :
        ti \in Values, ty \in Values, ts \in Values,
        a \in {Ids(<<>>), Ids(<<"u2">>)}, t \in {Ids(<<>>), Ids(<<"t1">>)}}

AllFilters ==
    [query : {Undefined} \cup Values,
     tags : {Absent, Ids(<<"t1">>), Ids(<<"t2">>)},
     users : {Absent, Ids(<<"u1">>), Ids(<<"u2">>)},
     types : {Absent} \cup {Ids(<<ty>>) : ty \in Values},
     startDate : {Undefined} \cup Values,
     endDate : {Undefined} \cup Values]

GivenFilters(f) ==
    {k \in {"query", "tags", "users", "types", "startDate", "endDate"} : f[k] # NoFilter[k]}

Filters == {f \in AllFilters : Cardinality(GivenFilters(f)) <= 2}

NextSearch ==
    \/ \E req \in SearchedReqs : MayCreate(MaxTracked) /\ CreateStart("p1", "u1", req)
    \/ RepoCreate("p1")
    \/ \E f \in Filters : SearchEvents("p2", f)

SpecSearch == Init /\ [][NextSearch]_vars

\* ---------------------------------------------------------- SpecTagNames
\* Two clients of POST /api/tags and PUT /api/tags/:id with names that are
\* taken and names that are free, with and without a color, and a
\* createMultiple beside them; no more than MaxTags tags are made.
TagBodies == {Omitted, "t1", "urgent"}
ColorBodies == {Omitted, "#10B981"}

MayMakeTag == nextTagId <= MaxTags

NextTagNames ==
    \/ \E p \in Procs, name \in TagBodies \ {Omitted}, color \in ColorBodies :
          MayMakeTag /\ TagPostStart(p, name, color)
    \/ \E p \in Procs, t \in TagIds \cup {Cuid(1)}, name \in TagBodies, color \in ColorBodies :
          TagPutStart(p, t, name, color)
    \/ \E p \in Procs : ExistsByName(p) \/ TagCreate(p) \/ TagUpdate(p)
    \/ \E name \in TagBodies \ {Omitted} :
          MayMakeTag /\ BatchStart("p2", <<name>>)
    \/ FindByNames("p2")
    \/ \E color \in Colors : CreateTag("p2", 1, color)

SpecTagNames == Init /\ [][NextTagNames]_vars

\* ----------------------------------------------------------- SpecPopular
\* Events are created with either tag, both or none, a tag is deleted, and a
\* second client asks for the most popular tags.
PopularReqs ==
    {[patch |-> FirstPatch, asg |-> Absent, tgs |-> tgs] : tgs \in TagLists}

NextPopular ==
    \/ \E req \in PopularReqs : MayCreate(MaxEvents) /\ CreateStart("p1", "u1", req)
    \/ RepoCreate("p1")
    \/ \E t \in TagIds : DeleteTag(t)
    \/ \E limit \in 1..MaxLimit : GetPopularTags("p2", limit)

SpecPopular == Init /\ [][NextPopular]_vars

\* ------------------------------------------------------------- SpecUsers
\* Two clients register, create users and log in, with names, addresses and
\* passwords that are taken or free, while users are deleted.
Usernames == {"u1", "ann"}
Emails == {"u1", "ann@x.org"}
Passwords == {FirstPassword, "password2"}

MayRegister == nextUserId <= MaxUsers

NextUsers ==
    \/ \E p \in Procs, op \in {"userPost", "register"}, n \in Usernames, m \in Emails :
          MayRegister /\ RegisterStart(p, op, n, m, "password2")
    \/ \E p \in Procs : ExistsByEmail(p)
    \/ \E p \in Procs : ExistsByUsername(p)
    \/ \E p \in Procs : UserCreate(p)
    \/ \E p \in Procs, m \in Emails, w \in Passwords : LoginStart(p, m, w)
    \/ \E p \in Procs : FindByEmailWithPassword(p)
    \/ \E p \in Procs : BcryptCompare(p)
    \/ DeleteUser("u1")

SpecUsers == Init /\ [][NextUsers]_vars

\* -------------------------------------------------------------- SpecAuth
\* One client sends creates and updates of events, tags and users with any
\* Authorization header and with bodies that pass or fail the route's
\* schema, while users are deleted.
Tokens ==
    {generateToken(u) : u \in UserIds} \cup
    {[generateToken("u1") EXCEPT !.secret = "another-secret"],
     [generateToken("u1") EXCEPT !.expired = TRUE]}

Headers ==
    {NoHeader, [words |-> 1, token |-> NoToken]} \cup
    {[words |-> 2, token |-> t] : t \in Tokens}

\* A body that passes CreateEventSchema, and the bodies that differ from it
\* in one field.
GoodBody == [NoBody EXCEPT !.title = Str(1), !.content = Str(1), !.type = "TEXT"]

EventBodies ==
    {[GoodBody EXCEPT !.title = t] :
        t \in {NoStr, Str(0), Str(1), Str(MaxTitle), Str(MaxTitle + 1)}} \cup
    {[GoodBody EXCEPT !.content = c] : c \in {NoStr, Str(0)}} \cup
    {[GoodBody EXCEPT !.type = ty] : ty \in {"", "AUDIO"}} \cup
    {[GoodBody EXCEPT !.ids = l] : l \in {Ids(<<"u2">>), Ids(<<"not-a-cuid">>)}}

TagRequestBodies ==
    {[NoBody EXCEPT !.name = n, !.color = c] :
        n \in {"", "urgent", "a!b"}, c \in {"", "#10B981", "red"}}

UserBodies ==
    {[NoBody EXCEPT !.name = n, !.email = m, !.password = w] :
        n \in {"ann", "a b"}, m \in {"ann@x.org", "ann"}, w \in {"passwor", "password2"}}

NextAuth ==
    \/ \E h \in Headers, b \in EventBodies :
          MayWrite(MaxClock) /\ MayCreate(MaxTracked) /\ Arrive("p1", "post", NoEvent, h, b)
    \/ \E h \in Headers, b \in EventBodies, e \in 1..MaxTracked :
          MayWrite(MaxClock) /\ Arrive("p1", "put", e, h, b)
    \/ \E h \in Headers, b \in TagRequestBodies :
          MayMakeTag /\ Arrive("p1", "tagPost", NoEvent, h, b)
    \/ \E b \in UserBodies : MayRegister /\ Arrive("p1", "register", NoEvent, NoHeader, b)
    \/ AuthFind("p1")
    \/ Handle("p1")
    \/ CheckUser("p1")
    \/ RepoCreate("p1") \/ RepoFind("p1") \/ RepoWrite("p1") \/ RepoHistory("p1")
    \/ ExistsByName("p1") \/ TagCreate("p1")
    \/ ExistsByEmail("p1") \/ ExistsByUsername("p1") \/ UserCreate("p1")
    \/ \E u \in UserIds : DeleteUser(u)

SpecAuth == Init /\ [][NextAuth]_vars

\* --------------------------------------------------------- SpecPasswords
\* UserRepository.create and update are called with passwords of any text,
\* the empty one included, and with updates that give no password.
PasswordTexts == {"", FirstPassword, "password2"}

UserData ==
    {NoStrings} \cup {[given |-> {"password"}, password |-> w] : w \in PasswordTexts}

NextPasswords ==
    \/ \E p \in Procs, w \in PasswordTexts :
          MayRegister /\ UserCreateCall(p, "ann", "ann@x.org", w)
    \/ \E p \in Procs : UserCreate(p)
    \/ \E p \in Procs, u \in UserIds \cup {Cuid(1)}, userData \in UserData :
          UserUpdateCall(p, u, userData)
    \/ \E p \in Procs : UserUpdate(p)
    \/ DeleteUser("u2")

SpecPasswords == Init /\ [][NextPasswords]_vars

\* ------------------------------------------------------------- SpecQuery
\* GET /api/events with page and limit parameters of every kind: not sent,
\* no number, zero, negative, small, at the cap and above it.
QueryParams ==
    {NotSent, [lead |-> <<>>, rest |-> "abc"], [lead |-> <<2>>, rest |-> "abc"]} \cup
    {[lead |-> <<n>>, rest |-> ""] : n \in {0 - 1, 0, 1, 2, LimitCap, LimitCap + 1}}

NextQuery ==
    \/ \E req \in ListedReqs : MayCreate(MaxListed) /\ CreateStart("p1", "u1", req)
    \/ RepoCreate("p1")
    \/ \E pageParam, limitParam \in QueryParams : GetEvents("p2", pageParam, limitParam)
    \/ FindMany("p2")
    \/ Count("p2")

SpecQuery == Init /\ [][NextQuery]_vars

\* ------------------------------------------------------------- SpecOwner
\* Two clients of PUT and DELETE /api/events/:id, each authenticated as
\* either user, on events either user created, while users are deleted.
OwnerReqs ==
    {[patch |-> TitlePatch(2), asg |-> Absent, tgs |-> Absent],
     [patch |-> NoPatch, asg |-> Ids(<<"u1">>), tgs |-> Ids(<<"t2">>)]}

NextOwner ==
    \/ \E caller \in UserIds :
          MayWrite(MaxClock) /\ MayCreate(MaxTracked) /\ PostStart("p1", caller, FirstReq)
    \/ \E p \in Procs, e \in 1..MaxTracked, caller \in UserIds, req \in OwnerReqs :
          MayWrite(MaxClock) /\ PutStart(p, e, caller, req)
    \/ \E p \in Procs, e \in 1..MaxTracked, caller \in UserIds : DeleteStart(p, e, caller)
    \/ \E p \in Procs : CheckUser(p) \/ CheckTag(p)
    \/ \E p \in Procs : RepoCreate(p) \/ RepoFind(p) \/ RepoWrite(p) \/ RepoHistory(p)
    \/ \E p \in Procs : RepoDelete(p)
    \/ \E u \in UserIds : DeleteUser(u)

SpecOwner == Init /\ [][NextOwner]_vars

\* ---------------------------------------------------------------- C1
\* C1: no step changes the creatorId or the createdAt of an event: after any
\* sequence of updates, by any editor, they are what create stored.
C1_CreatorAndCreatedAtKept ==
    [][\A e \in DOMAIN events \cap DOMAIN events' :
          /\ events'[e].creatorId = events[e].creatorId
          /\ events'[e].createdAt = events[e].createdAt]_vars

\* C1 witness: two updates of an event have committed, the last one by an
\* editor who is not its creator and with a title of its own.
C1_Witness ==
    /\ proc["p2"].pc = "history" /\ proc["p2"].caller = "u2"
    /\ proc["p2"].ev \in DOMAIN events
    /\ events[proc["p2"].ev].creatorId = "u1"
    /\ events[proc["p2"].ev].updatedAt = events[proc["p2"].ev].createdAt + 2
    /\ proc["p2"].res.updatedAt = events[proc["p2"].ev].updatedAt
    /\ proc["p2"].req.patch.title = 2

\* ---------------------------------------------------------------- C2
\* C2: an update that returns its event has appended exactly one history row
\* if its write changed one of title, content, type, timestamp, holding
\* {from, to} for exactly the fields the write changed and the editor's id,
\* and has appended no row if its write changed none of them.
C2_AsStated ==
    [][\A p \in Procs :
          proc[p].pc = "history" /\ proc'[p].pc = "done" /\ proc'[p].resp = "event"
             => LET written ==
                       [f \in Fields |->
                          IF proc[p].was[f] # proc[p].res[f]
                          THEN <<proc[p].was[f], proc[p].res[f]>> ELSE <<>>]
                IN IF \A f \in Fields : written[f] = <<>>
                   THEN history' = history
                   ELSE history' = Append(history,
                           [eventId |-> proc[p].ev, changes |-> written,
                            editedBy |-> proc[p].caller])]_vars

\* --------------------------------------------------------------- C10
\* The later and the earlier of two updates that have both committed.
Later(p, q) == IF proc[p].res.updatedAt > proc[q].res.updatedAt THEN p ELSE q
Earlier(p, q) == IF proc[p].res.updatedAt > proc[q].res.updatedAt THEN q ELSE p

\* C10: when two update calls on one event have both committed while both
\* were in progress, every scalar holds the value of the later call if that
\* call supplied it, else the value of the earlier call if that one supplied
\* it, else its value from before both; and each association set likewise
\* holds exactly the later supplied list, never a union of the two.
C10_LastWriteWins ==
    \A p, q \in Procs :
       (/\ p # q
        /\ proc[p].pc = "history" /\ proc[q].pc = "history"
        /\ proc[p].ev = proc[q].ev)
       => LET e == proc[p].ev
              a == proc[Earlier(p, q)]
              b == proc[Later(p, q)]
          IN /\ \A f \in Fields :
                   events[e][f] =
                      IF b.req.patch[f] # Undefined THEN b.req.patch[f]
                      ELSE IF a.req.patch[f] # Undefined THEN a.req.patch[f]
                      ELSE a.was[f]
             /\ TagsOf(eventTags, e) =
                   IF b.req.tgs.present THEN Range(b.req.tgs.ids)
                   ELSE IF a.req.tgs.present THEN Range(a.req.tgs.ids)
                   ELSE a.was.tags
             /\ UsersOf(assignments, e) =
                   IF b.req.asg.present THEN Range(b.req.asg.ids)
                   ELSE IF a.req.asg.present THEN Range(a.req.asg.ids)
                   ELSE a.was.assignedUsers

\* C10 witness: both calls read the event before either wrote; both have
\* committed, p2 last; both supplied a title, different ones, and a tag list,
\* different ones, and only p1 supplied a content.
C10_Witness ==
    /\ proc["p1"].pc = "history" /\ proc["p2"].pc = "history"
    /\ proc["p1"].ev = proc["p2"].ev
    /\ proc["p1"].cur = proc["p2"].cur
    /\ proc["p2"].res.updatedAt > proc["p1"].res.updatedAt
    /\ proc["p1"].req.patch.title = 2 /\ proc["p2"].req.patch.title = 1
    /\ proc["p1"].req.patch.content = 2
    /\ proc["p1"].req.tgs = Ids(<<"t2">>) /\ proc["p2"].req.tgs = Ids(<<"t1">>)

\* ---------------------------------------------------------------- C3
\* The step in which the update of process p commits.
Commits(p) == proc[p].pc = "write" /\ proc'[p].pc = "history"

\* C3: when an update commits, the event's tag set is exactly the supplied
\* tagIds if the field is present (the empty array clears it) and is what it
\* was before the write if the field is absent; the same for assignedUserIds
\* and the assigned-user set; the rows of other events are not touched.
C3_LinksReplaced ==
    [][\A p \in Procs :
          Commits(p) =>
             LET e == proc[p].ev
                 req == proc[p].req
             IN /\ TagsOf(eventTags', e) =
                      IF req.tgs.present THEN Range(req.tgs.ids)
                      ELSE TagsOf(eventTags, e)
                /\ UsersOf(assignments', e) =
                      IF req.asg.present THEN Range(req.asg.ids)
                      ELSE UsersOf(assignments, e)
                /\ proc'[p].res.tags = TagsOf(eventTags', e)
                /\ proc'[p].res.assignedUsers = UsersOf(assignments', e)
                /\ \A x \in DOMAIN events \ {e} :
                      /\ TagsOf(eventTags', x) = TagsOf(eventTags, x)
                      /\ UsersOf(assignments', x) = UsersOf(assignments, x)]_vars

\* C3 witness: an update with tagIds: [] and no assignedUserIds has committed
\* on an event that had tags and an assigned user: the tags are gone, the
\* assigned user is still there.
C3_Witness ==
    \E p \in Procs :
       /\ proc[p].pc = "history"
       /\ proc[p].req.tgs = Ids(<<>>) /\ proc[p].req.asg = Absent
       /\ proc[p].cur.tags # {} /\ proc[p].res.tags = {}
       /\ proc[p].res.assignedUsers # {}

\* ---------------------------------------------------------------- C4
InvalidReference == {"INVALID_USER_ID", "INVALID_TAG_ID"}

\* Process p is at its write and its request names a user or a tag that does
\* not exist (any more).
WritesDangling(p) ==
    /\ proc[p].pc \in {"create", "write"}
    /\ proc[p].op \in {"post", "put"}
    /\ \/ ~(Range(proc[p].req.asg.ids) \subseteq DOMAIN users)
       \/ ~(Range(proc[p].req.tgs.ids) \subseteq DOMAIN tagRows)

\* Process p is at an existence check that fails.
ChecksMissing(p) ==
    \/ proc[p].pc = "checkUsers" /\ proc[p].req.asg.ids[proc[p].i] \notin DOMAIN users
    \/ proc[p].pc = "checkTags" /\ proc[p].req.tgs.ids[proc[p].i] \notin DOMAIN tagRows

Moves(p) == proc'[p] # proc[p]

\* C4 as stated: every create or update request that names a missing user or
\* tag, at its existence check or at its write, is answered with an
\* invalid-reference error and writes nothing.
C4_AsStated ==
    [][\A p \in Procs :
          Moves(p) /\ (ChecksMissing(p) \/ WritesDangling(p))
             => /\ proc'[p].pc = "done"
                /\ proc'[p].resp \in InvalidReference
                /\ UNCHANGED db]_vars

\* ---------------------------------------------------------------- C5
\* C5: in every reachable state no assignment, event-tag, attachment or
\* edit-history row refers to an event that does not exist, and an event whose
\* deletion was answered as done (EventRepository.delete returned true) is gone,
\* so that no row of it remains.
C5_NoOrphanRows ==
    /\ \A a \in assignments : a.eventId \in DOMAIN events
    /\ \A a \in eventTags : a.eventId \in DOMAIN events
    /\ \A a \in attachments : a.eventId \in DOMAIN events
    /\ \A k \in 1..Len(history) : history[k].eventId \in DOMAIN events
    /\ \A p \in Procs :
          proc[p].pc = "done" /\ proc[p].op = "remove" /\ proc[p].resp = "true"
             => proc[p].ev \notin DOMAIN events

\* C5 witness: delete returned true for an event that had an attachment, while
\* an update of that event has written and is about to insert its history
\* row; the other event is still there.
C5_Witness ==
    /\ proc["p2"].pc = "done" /\ proc["p2"].op = "remove"
    /\ proc["p2"].resp = "true"
    /\ proc["p1"].pc = "history" /\ proc["p1"].ev = proc["p2"].ev
    /\ proc["p1"].res.tags # {} /\ proc["p1"].res.assignedUsers # {}
    /\ DOMAIN users = UserIds
    /\ nextAttachmentId > 1 /\ attachments = {}
    /\ DOMAIN events # {}

\* ---------------------------------------------------------------- C6
\* C6 as stated: deleting a tag or a user leaves the set of events and every
\* event's row as it was.
C6_AsStated ==
    [][(DOMAIN tagRows' # DOMAIN tagRows \/ DOMAIN users' # DOMAIN users)
          => events' = events]_vars

\* C6 amended: deleting a tag removes the event-tag rows of that tag and
\* nothing else; deleting a user leaves every event that another user created
\* in place with its title, content, type, timestamp and creatorId unchanged.
C6_DeletionKeepsOtherEvents ==
    [][/\ \A t \in DOMAIN tagRows \ DOMAIN tagRows' :
             /\ events' = events
             /\ eventTags' = {a \in eventTags : a.tagId # t}
             /\ assignments' = assignments
             /\ attachments' = attachments
             /\ history' = history
       /\ \A u \in DOMAIN users \ DOMAIN users' :
             \A e \in DOMAIN events :
                events[e].creatorId # u
                   => e \in DOMAIN events' /\ events'[e] = events[e]]_vars

\* C6 witness: a tag that an event carried when its update returned has been
\* deleted since; the event exists and no longer carries it.
C6_Witness ==
    /\ proc["p1"].pc = "history"
    /\ proc["p1"].ev \in DOMAIN events
    /\ "t1" \in proc["p1"].res.tags
    /\ "t1" \notin DOMAIN tagRows
    /\ findById(proc["p1"].ev).tags = {}

\* ---------------------------------------------------------------- C7
\* C7: deleting a user deletes exactly the events that user created, with
\* their assignments, tags, attachments and history, and that user's
\* assignment rows on other events; every other event and row stays as it was.
C7_UserDeleteCascades ==
    [][\A u \in DOMAIN users \ DOMAIN users' :
          LET owned == {e \in DOMAIN events : events[e].creatorId = u}
          IN /\ DOMAIN events' = DOMAIN events \ owned
             /\ \A e \in DOMAIN events' : events'[e] = events[e]
             /\ assignments' =
                   {a \in assignments : a.eventId \notin owned /\ a.userId # u}
             /\ eventTags' = {a \in eventTags : a.eventId \notin owned}
             /\ attachments' = {a \in attachments : a.eventId \notin owned}
             /\ history' = SelectSeq(history, LAMBDA h : h.eventId \notin owned)]_vars

\* C7 witness: two events were created and no delete request was ever made;
\* u1 is gone and took an event and the attachment with it, the event u2
\* created is still there and has lost its assignment.
C7_Witness ==
    /\ "u1" \notin DOMAIN users /\ "u2" \in DOMAIN users
    /\ proc["p2"].pc = "idle"
    /\ nextEventId = 3 /\ Cardinality(DOMAIN events) = 1
    /\ \A e \in DOMAIN events : events[e].creatorId = "u2"
    /\ nextAttachmentId > 1 /\ attachments = {}
    /\ assignments = {}

\* ---------------------------------------------------------------- C8
\* C8: createMultiple is idempotent for every name list: the first call
\* returns its tags; a second call with the same list returns tags with the
\* same set of ids and creates no tag; and no two tags ever share a name.
C8_AsStated ==
    /\ Answered("p1") => proc["p1"].resp = "tags"
    /\ (Answered("p1") /\ Answered("p2"))
          => /\ proc["p2"].resp = "tags"
             /\ proc["p2"].found \cup proc["p2"].made =
                   proc["p1"].found \cup proc["p1"].made
             /\ proc["p2"].made = {}
    /\ \A s, t \in DOMAIN tagRows : tagRows[s].name = tagRows[t].name => s = t

\* ---------------------------------------------------------------- C9
\* What the update of process w has made of a set by now: the supplied list
\* once it has committed, the set it found before.
SetAfter(w, list, old) ==
    IF proc[w].pc = "history" /\ list.present THEN Range(list.ids) ELSE old

\* C9: while an update of an event is in progress, a read of that event that
\* saw the row no older than the update found it holds, for the assigned
\* users and for the tags, either the whole set from before the update or
\* the whole set the update supplied, and an old set only before the commit
\* or with a row from before it.
C9_ReadsSeeWholeSets ==
    \A r, w \in Procs :
       (/\ proc[r].op \in {"get", "list"} /\ Found(proc[r].res)
        /\ proc[w].op = "update" /\ proc[w].pc \in {"write", "history"}
        /\ proc[w].ev = proc[r].ev
        /\ proc[r].res.updatedAt >= proc[w].cur.updatedAt)
       => LET seen == proc[r].res
              old == proc[w].cur
              req == proc[w].req
          IN /\ proc[r].pc \in {"readTags", "done"} =>
                   /\ seen.assignedUsers \in
                         {old.assignedUsers, SetAfter(w, req.asg, old.assignedUsers)}
                   /\ seen.updatedAt > old.updatedAt =>
                         seen.assignedUsers = SetAfter(w, req.asg, old.assignedUsers)
             /\ proc[r].pc = "done" =>
                   /\ seen.tags \in {old.tags, SetAfter(w, req.tgs, old.tags)}
                   /\ seen.updatedAt > old.updatedAt =>
                         seen.tags = SetAfter(w, req.tgs, old.tags)

\* C9 witness: a read that began before an update committed and ended after
\* it: it answers with the row from before the update, the assigned users
\* from before it and the whole new tag set, which shares a tag with the old.
C9_Witness ==
    /\ proc["p1"].op = "update" /\ proc["p1"].pc = "history"
    /\ proc["p2"].op = "get" /\ proc["p2"].pc = "done"
    /\ proc["p2"].ev = proc["p1"].ev
    /\ proc["p2"].res.updatedAt = proc["p1"].cur.updatedAt
    /\ proc["p1"].cur.tags = {"t1"}
    /\ proc["p1"].req.tgs = Ids(<<"t1", "t2">>)
    /\ proc["p2"].res.tags = {"t1", "t2"}
    /\ proc["p1"].req.asg = Ids(<<"u1">>)
    /\ proc["p2"].res.assignedUsers = proc["p1"].cur.assignedUsers


\* --------------------------------------------------------------- C11
\* Process p starts a PUT or DELETE on an event that exists, as a user who
\* did not create it.
StartsAsOther(p) ==
    /\ Free(p) /\ proc'[p] # proc[p]
    /\ proc'[p].op \in {"put", "delete"}
    /\ proc'[p].ev \in DOMAIN events
    /\ events[proc'[p].ev].creatorId # proc'[p].caller

\* The rows of event e in every table, or nothing when it does not exist.
RowsOf(e) ==
    <<IF e \in DOMAIN events THEN <<events[e]>> ELSE <<>>,
      UsersOf(assignments, e), TagsOf(eventTags, e),
      {a \in attachments : a.eventId = e},
      SelectSeq(history, LAMBDA h : h.eventId = e)>>

Listed(p, op) ==
    /\ proc[p].op = op /\ proc[p].pc = "done" /\ proc[p].resp = "OK"
    /\ proc[p].at = nextEventId

\* The sequence data holds, in descending timestamp order, events of S that
\* can stand at the ranks first, first + 1, ... of S by descending timestamp.
RankedFrom(data, S, first) ==
    /\ \A i \in 1..Len(data) : data[i] \in S
    /\ \A i, j \in 1..Len(data) : i # j => data[i] # data[j]
    /\ \A i, j \in 1..Len(data) :
          i < j => events[data[i]].timestamp >= events[data[j]].timestamp
    /\ \A i \in 1..Len(data) :
          LET t == events[data[i]].timestamp
              rank == first + i - 1
          IN /\ Cardinality({e \in S : events[e].timestamp > t}) < rank
             /\ Cardinality({e \in S : events[e].timestamp >= t}) >= rank

\* The pagination object is that of total events listed limit to a page.
Paginated(me, total) ==
    /\ me.total = total
    /\ me.totalPages * me.q.limit >= total
    /\ (me.totalPages - 1) * me.q.limit < total
    /\ me.totalPages >= 0

\* C12: over an unchanging store of N events, findAll(page, limit) with
\* page >= 1 and limit >= 1 returns total N, totalPages ceil(N / limit) and
\* as data the events of ranks (page - 1) * limit + 1 to min(page * limit, N)
\* by descending timestamp, in that order.
C12_FindAllPages ==
    \A p \in Procs :
       Listed(p, "findAll") =>
          LET me == proc[p]
              N == Cardinality(DOMAIN events)
              first == (me.q.page - 1) * me.q.limit + 1
              last == IF me.q.page * me.q.limit < N THEN me.q.page * me.q.limit ELSE N
          IN /\ Paginated(me, N)
             /\ Len(me.data) = IF last >= first THEN last - first + 1 ELSE 0
             /\ RankedFrom(me.data, DOMAIN events, first)

\* C12 witness: page 2 with limit 2 over three events, two of them of equal
\* timestamp, holds one event, the earliest; totalPages is 2.
C12_Witness ==
    /\ Listed("p2", "findAll")
    /\ Cardinality(DOMAIN events) = 3
    /\ proc["p2"].q.page = 2 /\ proc["p2"].q.limit = 2
    /\ Len(proc["p2"].data) = 1 /\ proc["p2"].totalPages = 2
    /\ \E e \in DOMAIN events :
          events[e].timestamp > events[proc["p2"].data[1]].timestamp
    /\ \E e, f \in DOMAIN events : e # f /\ events[e].timestamp = events[f].timestamp

\* --------------------------------------------------------------- C13
\* C13: over an unchanging store, findByDateRange(startDate, endDate, page,
\* limit) returns only events with startDate <= timestamp <= endDate, those
\* of the page's ranks among all such events by descending timestamp, and
\* total is the number of all events in the range.
C13_DateRange ==
    \A p \in Procs :
       Listed(p, "findByDateRange") =>
          LET me == proc[p]
              S == {e \in DOMAIN events :
                      /\ me.q.startDate <= events[e].timestamp
                      /\ events[e].timestamp <= me.q.endDate}
              N == Cardinality(S)
              first == (me.q.page - 1) * me.q.limit + 1
              last == IF me.q.page * me.q.limit < N THEN me.q.page * me.q.limit ELSE N
          IN /\ Paginated(me, N)
             /\ Len(me.data) = IF last >= first THEN last - first + 1 ELSE 0
             /\ RankedFrom(me.data, S, first)

\* C13 witness: of three events one lies outside the range and one on its
\* end; page 1 with limit 1 holds the one on the end and total is 2.
C13_Witness ==
    /\ Listed("p2", "findByDateRange")
    /\ Cardinality(DOMAIN events) = 3
    /\ proc["p2"].q.page = 1 /\ proc["p2"].q.limit = 1
    /\ proc["p2"].total = 2 /\ Len(proc["p2"].data) = 1
    /\ events[proc["p2"].data[1]].timestamp = proc["p2"].q.endDate
    /\ \E e \in DOMAIN events : events[e].timestamp > proc["p2"].q.endDate

\* --------------------------------------------------------------- C14
\* Event e satisfies every filter that f supplies.
Satisfies(e, f) ==
    /\ f.query # Undefined => (events[e].title = f.query \/ events[e].content = f.query)
    /\ f.tags.present => \E t \in Range(f.tags.ids) : t \in TagsOf(eventTags, e)
    /\ f.users.present =>
          \E u \in Range(f.users.ids) :
             u = events[e].creatorId \/ u \in UsersOf(assignments, e)
    /\ f.types.present => \E ty \in Range(f.types.ids) : ty = events[e].type
    /\ f.startDate # Undefined => f.startDate <= events[e].timestamp
    /\ f.endDate # Undefined => events[e].timestamp <= f.endDate

\* C14: a search returns exactly the events that satisfy every supplied
\* filter, an absent filter excluding none, and changes nothing in the store.
C14_SearchIsConjunction ==
    [][\A p \in Procs :
          proc'[p].op = "search" /\ proc'[p] # proc[p]
             => /\ proc'[p].hits = {e \in DOMAIN events : Satisfies(e, proc'[p].f)}
                /\ UNCHANGED db]_vars

\* C14 witness: a search by type and by end date alone finds an event that
\* has no tag and no assigned user.
C14_Witness ==
    /\ proc["p2"].op = "search"
    /\ proc["p2"].f.types.present /\ proc["p2"].f.endDate # Undefined
    /\ GivenFilters(proc["p2"].f) = {"types", "endDate"}
    /\ \E e \in proc["p2"].hits :
          /\ e \in DOMAIN events
          /\ TagsOf(eventTags, e) = {} /\ UsersOf(assignments, e) = {}
          /\ events[e].timestamp = proc["p2"].f.endDate

\* --------------------------------------------------------------- C15
\* The next step of process p is the create or the rename of a tag to a name
\* that another tag carries.
TakesName(p) ==
    /\ proc[p].op \in {"tagPost", "tagPut"}
    /\ proc[p].pc \in {"existsByName", "tagCreate", "tagUpdate"}
    /\ proc[p].name # Omitted
    /\ IdsOfNames({proc[p].name}) \ {proc[p].tag} # {}

\* C15: no two tags share a name, and a create or a rename whose name belongs
\* to another tag is answered TAG_ALREADY_EXISTS and leaves the tags as they
\* are, wherever in the request the name is found taken.
C15_AsStated ==
    [][/\ \A s, t \in DOMAIN tagRows : tagRows[s].name = tagRows[t].name => s = t
       /\ \A p \in Procs :
             TakesName(p) /\ proc'[p] # proc[p]
                => /\ proc'[p].resp = "TAG_ALREADY_EXISTS"
                   /\ tagRows' = tagRows]_vars

\* --------------------------------------------------------------- C16
\* C16: every tag is stored with a color of the palette, never with null:
\* the tags POST /api/tags creates without a color and the tags
\* createMultiple creates.
C16_AsStated ==
    \A t \in DOMAIN tagRows :
       /\ tagRows[t].color # Null
       /\ (\E p \in Procs : t \in proc[p].made) => tagRows[t].color \in Palette

\* ---------------------------------------------------------------- C17
\* The tag names of the model in ascending order.
Alphabetical == <<"bug", "t1", "t2", "urgent">>

NameRank(n) == CHOOSE i \in DOMAIN Alphabetical : Alphabetical[i] = n

\* The call of getPopularTags that p answers in this step.
Populars(p) == proc'[p] # proc[p] /\ proc'[p].op = "getPopularTags"

\* C17: getPopularTags(limit) returns at most limit tags ordered by
\* descending number of event associations, tags of equal count ordered by
\* name ascending, and each eventCount is the tag's current number of
\* EventTag rows.
C17_AsStated ==
    [][\A p \in Procs :
          Populars(p) =>
             LET data == proc'[p].data
             IN  /\ Len(data) <= proc'[p].q.limit
                 /\ \A i \in DOMAIN data : data[i].eventCount = EventCount(data[i].id)
                 /\ \A i, j \in DOMAIN data :
                       i < j =>
                          \/ data[i].eventCount > data[j].eventCount
                          \/ /\ data[i].eventCount = data[j].eventCount
                             /\ NameRank(data[i].name) < NameRank(data[j].name)]_vars

\* ---------------------------------------------------------------- C18
\* The request of p is a registration or user creation that finds its email
\* or username taken.
TakesUser(p) ==
    /\ proc[p].op \in {"userPost", "register"}
    /\ proc[p].pc \in {"existsByEmail", "existsByUsername", "userCreate"}
    /\ ByEmail(proc[p].email) \cup ByUsername(proc[p].name) # {}

\* C18: usernames and emails are unique across users in every state, and a
\* registration or user creation whose email or username is taken fails with
\* EMAIL_ALREADY_EXISTS or USERNAME_ALREADY_EXISTS and creates no user, also
\* when two such requests run concurrently.
C18_AsStated ==
    [][/\ \A u, v \in DOMAIN users :
             (users[u].email = users[v].email \/ users[u].username = users[v].username)
                => u = v
       /\ \A p \in Procs :
             TakesUser(p) /\ proc'[p].pc = "done"
                => /\ proc'[p].resp \in {"EMAIL_ALREADY_EXISTS", "USERNAME_ALREADY_EXISTS"}
                   /\ users' = users]_vars

\* ---------------------------------------------------------------- C19
\* What the caller of a login sees.
Observable(me) == [resp |-> me.resp, err |-> me.err, user |-> me.user]

Denied == [resp |-> "INVALID_CREDENTIALS", err |-> "", user |-> {}]

\* The users verifyPassword has to judge for p: those with the email of the
\* request when it looks them up, the one it read afterwards.
Known(p) ==
    IF proc[p].pc = "findByEmail"
    THEN {UserRow(u) : u \in ByEmail(proc[p].email)}
    ELSE proc[p].row

\* C19: verifyPassword returns the user's public profile without the
\* credential hash when the password matches, and null both for an unknown
\* email and for a wrong password; the login answers 401
\* INVALID_CREDENTIALS in both cases, and nothing the caller sees tells the
\* two apart.
C19_VerifyPassword ==
    [][\A p \in Procs :
          proc[p].op = "login" /\ proc[p].pc # "done" /\ proc'[p].pc = "done"
             => LET right == {user \in Known(p) :
                                \E salt \in Salts :
                                   user.password = Hash(proc[p].password, salt)}
                IN  IF right # {}
                    THEN Observable(proc'[p]) =
                            [resp |-> "OK", err |-> "",
                             user |-> {[id |-> user.id, username |-> user.username,
                                        email |-> user.email] : user \in right}]
                    ELSE Observable(proc'[p]) = Denied]_vars

\* One login was denied for an email no user ever had, the other for the
\* wrong password of a user, and what the two callers see is the same.
C19_Witness ==
    /\ nextUserId = 1
    /\ "u1" \in DOMAIN users
    /\ proc["p1"].op = "login" /\ proc["p1"].pc = "done"
    /\ proc["p1"].email = "ann@x.org"
    /\ proc["p2"].op = "login" /\ proc["p2"].pc = "done"
    /\ proc["p2"].email = "u1" /\ proc["p2"].password # FirstPassword
    /\ Observable(proc["p1"]) = Denied
    /\ Observable(proc["p2"]) = Denied

\* ---------------------------------------------------------------- C20
\* p's PUT is answered in this step, by the handler's existence check or by
\* EventRepository.update before its write, and the event is not there.
UpdatesMissing(p) ==
    /\ proc'[p] # proc[p]
    /\ proc'[p].op = "put" /\ proc'[p].pc = "done"
    /\ Free(p) \/ (proc[p].op = "put" /\ proc[p].pc \in {"update", "write"})
    /\ proc'[p].ev \notin DOMAIN events

\* C20: an update addressed to an event id that does not exist fails with
\* NotFound, distinguishable from UpdateFailed, and changes nothing in the
\* store, also when the event is deleted by another request after the
\* caller's existence check and before the update is applied.
C20_AsStated ==
    [][\A p \in Procs :
          UpdatesMissing(p) => proc'[p].resp = "EVENT_NOT_FOUND" /\ db' = db]_vars

\* ---------------------------------------------------------------- C21
\* The call of EventRepository.delete that p made returns in this step.
Removes(p) == proc[p].op = "remove" /\ proc[p].pc = "delete" /\ proc'[p].pc = "done"

\* C21: EventRepository.delete(id) never throws: it returns true exactly
\* when the event existed and was removed, and false, leaving the whole
\* store unchanged, when the event does not exist or the storage layer
\* rejects the deletion.
C21_DeleteNeverThrows ==
    [][\A p \in Procs :
          Removes(p) =>
             /\ proc'[p].resp \in {"true", "false"}
             /\ proc'[p].resp = "true" <=>
                   (proc[p].ev \in DOMAIN events /\ proc[p].ev \notin DOMAIN events')
             /\ proc'[p].resp = "false" => db' = db]_vars

\* An event was created and is gone again, and the delete of it that p2
\* called since has returned false.
C21_Witness ==
    /\ proc["p2"].op = "remove" /\ proc["p2"].pc = "done"
    /\ proc["p2"].resp = "false" /\ proc["p2"].err = "P2025"
    /\ proc["p2"].ev < nextEventId
    /\ proc["p2"].ev \notin DOMAIN events

\* ---------------------------------------------------------------- C22
\* The flaws of a body the claim names, for the route that takes the body.
Flawed(op, b) ==
    \/ /\ op \in {"post", "put"}
       /\ \/ b.title.given /\ b.title.len = 0
          \/ b.title.given /\ b.title.len > 255
          \/ b.content.given /\ b.content.len = 0
          \/ b.type \notin {"", "SIMPLE_MESSAGE", "PHOTO_WITH_NOTES", "EMAIL", "TEXT",
                            "DOCUMENT"}
          \/ \E i \in 1..Len(b.ids.ids) : b.ids.ids[i] = "not-a-cuid"
    \/ op = "post" /\ (~b.title.given \/ ~b.content.given \/ b.type = "")
    \/ op = "tagPost" /\ (b.name \in {"", "a!b"} \/ b.color = "red")
    \/ op = "register" /\ (b.name = "a b" \/ b.email = "ann" \/ b.password = "passwor")

\* C22 as stated: a create or update request whose body fails schema
\* validation is answered with VALIDATION_ERROR before any repository read
\* or write is issued, so the store is unchanged.
C22_AsStated ==
    \A p \in Procs :
       (proc[p].pc = "done" /\ proc[p].op \in {"post", "put", "tagPost", "register"}
          /\ Flawed(proc[p].op, proc[p].body))
          => proc[p].resp = "VALIDATION_ERROR" /\ proc[p].calls = 0

\* C22, amended: once the route's middleware has let the request through, a
\* body that fails schema validation is answered with VALIDATION_ERROR
\* before the handler issues any repository read or write, so the store is
\* unchanged; the one repository call made for the request by then is the
\* middleware's findById of the user a verified token names.
C22_ValidationFirst ==
    [][\A p \in Procs :
          (proc[p].pc = "handler" /\ Flawed(proc[p].op, proc[p].body)
             /\ proc'[p] # proc[p])
             => /\ proc'[p].pc = "done"
                /\ proc'[p].resp = "VALIDATION_ERROR"
                /\ db' = db
                /\ proc'[p].calls = proc[p].calls
                /\ proc[p].calls = IF verifyToken(TokenOf(proc[p].header)) # {}
                                      /\ Middleware(proc[p].op) # "none"
                                   THEN 1 ELSE 0]_vars

\* An authenticated create of an event with a title of 256 characters was
\* answered with VALIDATION_ERROR after the middleware's one lookup.
C22_Witness ==
    /\ proc["p1"].pc = "done" /\ proc["p1"].op = "post"
    /\ proc["p1"].resp = "VALIDATION_ERROR"
    /\ proc["p1"].body.title.len = 256
    /\ proc["p1"].body.content.len = 1 /\ proc["p1"].body.type = "TEXT"
    /\ proc["p1"].calls = 1
    /\ proc["p1"].user # {}

\* ---------------------------------------------------------------- C23
\* The request p carries after this step is behind authenticateToken, and
\* the step is one of the middleware: the arrival or the lookup of the user.
Authenticates(p) ==
    /\ proc'[p] # proc[p]
    /\ proc'[p].op \in {"post", "put"}
    /\ Free(p) \/ proc[p].pc = "authFind"

\* The answer the middleware owes a request, "" when it owes it none: the
\* token is missing, does not verify, or names nobody.
Owed(h) ==
    IF h.words < 2 THEN "MISSING_TOKEN"
    ELSE IF h.token.secret # "development-secret-key" \/ h.token.expired THEN "INVALID_TOKEN"
    ELSE IF h.token.userId \notin DOMAIN users THEN "USER_NOT_FOUND"
    ELSE ""

\* C23: a handler behind authenticateToken runs only after a token was
\* presented, verified and resolved to a user that exists at that moment;
\* otherwise the request ends with 401 MISSING_TOKEN, 403 INVALID_TOKEN or
\* 403 USER_NOT_FOUND, next() is not called and req.user is not set.  When
\* the handler runs, req.user.id is the id carried in the token.
C23_AuthenticateToken ==
    [][\A p \in Procs :
          Authenticates(p) =>
             LET h == proc'[p].header
             IN  /\ proc'[p].pc \in {"done", "authFind", "handler"}
                 /\ proc'[p].pc = "handler" =>
                       /\ Owed(h) = ""
                       /\ \E r \in proc'[p].user : r.id = h.token.userId
                       /\ Cardinality(proc'[p].user) = 1
                 /\ proc'[p].pc = "done" =>
                       /\ proc'[p].resp = Owed(h)
                       /\ proc'[p].resp # ""
                       /\ proc'[p].user = {}
                 /\ proc'[p].pc = "authFind" =>
                       /\ Owed(h) \in {"", "USER_NOT_FOUND"}
                       /\ proc'[p].user = {}]_vars

\* The token of a user who was deleted since is answered with USER_NOT_FOUND.
C23_Witness ==
    /\ proc["p1"].pc = "done" /\ proc["p1"].op = "put"
    /\ proc["p1"].resp = "USER_NOT_FOUND"
    /\ proc["p1"].header.token = generateToken("u2")
    /\ proc["p1"].user = {}
    /\ "u2" \notin DOMAIN users

\* ---------------------------------------------------------------- C24
\* C24: in every reachable state the users assigned to an event do not
\* include the event's creator.
C24_AsStated ==
    \A a \in assignments :
       a.eventId \in DOMAIN events => events[a.eventId].creatorId # a.userId

\* ---------------------------------------------------------------- C25
\* A list of ids that names one id twice.
Repeats(list) ==
    list.present /\ \E i, j \in 1..Len(list.ids) : i # j /\ list.ids[i] = list.ids[j]

\* p's create or update hands such a list to the store in this step.
WritesRepeated(p) ==
    /\ proc[p].pc \in {"create", "write"}
    /\ proc'[p] # proc[p]
    /\ Repeats(proc[p].req.asg) \/ Repeats(proc[p].req.tgs)

\* C25: an event carries each tag and each assigned user at most once; a
\* create or update whose tagIds or assignedUserIds names an id twice
\* produces no duplicate association and leaves no event partially written:
\* the store rejects the whole write.
C25_NoDuplicateLinks ==
    [][\A p \in Procs :
          WritesRepeated(p) =>
             /\ db' = db
             /\ proc'[p].pc = "done"
             /\ proc'[p].resp = Failure(proc[p].op)]_vars

\* An update that named a live tag twice was rejected on the composite key.
C25_Witness ==
    /\ proc["p1"].pc = "done" /\ proc["p1"].op = "put"
    /\ proc["p1"].err = "P2002"
    /\ proc["p1"].ev \in DOMAIN events
    /\ TagsOf(eventTags, proc["p1"].ev) = {"t1", "t2"}

\* ---------------------------------------------------------------- C26
\* EventRepository.update, called by p, reports failure in this step.
UpdateFails(p) ==
    /\ proc[p].op \in {"put", "update"}
    /\ proc[p].pc \in {"update", "write", "history"}
    /\ proc'[p].pc = "done"
    /\ proc'[p].resp = Failure(proc[p].op)

\* C26: whenever EventRepository.update reports failure, the event write and
\* the edit-history write took effect together or not at all: the call that
\* fails has not written the event.
C26_AsStated ==
    [][\A p \in Procs :
          UpdateFails(p) => db' = db /\ proc[p].pc # "history"]_vars

\* ---------------------------------------------------------------- C27
\* The history rows p's update appends in this step.
Appended(p) ==
    IF Len(history') > Len(history) THEN {history'[Len(history')]} ELSE {}

\* C27: under any interleaving of concurrent updates of one event, each
\* history row's `from` of a field is the value stored in that field just
\* before that update's write took effect, and every committed change of
\* title, content, type or timestamp is covered by a history row.
C27_AsStated ==
    [][\A p \in Procs :
          (proc[p].pc = "history" /\ proc'[p].pc = "done"
             /\ proc'[p].resp = Success(proc[p].op))
             => \A f \in Fields :
                   /\ \A row \in Appended(p) :
                         row.changes[f] # <<>> => row.changes[f][1] = proc[p].was[f]
                   /\ proc[p].was[f] # proc[p].res[f] =>
                         \E row \in Appended(p) :
                            /\ row.eventId = proc[p].ev
                            /\ row.changes[f] # <<>>
                            /\ row.changes[f][2] = proc[p].res[f]]_vars

\* ---------------------------------------------------------------- C28
\* C28: referential integrity holds in every reachable state, after any
\* interleaving of creates, updates and deletes of events, users and tags:
\* every event's creatorId names a user, every assignment row names an
\* event and a user, and every event-tag row names an event and a tag.
C28_ReferentialIntegrity ==
    /\ \A e \in DOMAIN events : events[e].creatorId \in DOMAIN users
    /\ \A a \in assignments : a.eventId \in DOMAIN events /\ a.userId \in DOMAIN users
    /\ \A a \in eventTags : a.eventId \in DOMAIN events /\ a.tagId \in DOMAIN tagRows

\* A create that named a user deleted meanwhile was rejected on a foreign
\* key, while another event with an assigned user and a tag is stored.
C28_Witness ==
    /\ proc["p1"].pc = "done" /\ proc["p1"].op = "create"
    /\ proc["p1"].err \in {"P2003_creatorId", "P2003_userId"}
    /\ assignments # {} /\ eventTags # {}
    /\ DOMAIN users # UserIds

\* ---------------------------------------------------------------- C29
\* The hashes of a password.
Hashes(password) == {Hash(password, salt) : salt \in Salts}

\* The password p's call of create or update supplies for user u in this
\* step, as a set: empty when the step supplies none for u.
Supplies(p, u) ==
    IF proc[p].pc = "userCreate" /\ proc'[p].resp = "CREATED"
          /\ u \notin DOMAIN users /\ u \in DOMAIN users'
    THEN {proc[p].password}
    ELSE IF proc[p].pc = "userUpdate" /\ proc'[p].resp = "user" /\ proc[p].id = u
               /\ "password" \in proc[p].set.given
    THEN {proc[p].set.password}
    ELSE {}

\* C29: after any sequence of UserRepository.create and update calls, every
\* user's stored credential is the hash of the password supplied last and
\* never the supplied text itself, for every password, the empty string
\* included: a step that supplies a password stores one of its hashes, and
\* no other step touches a stored credential.
C29_AsStated ==
    [][\A u \in DOMAIN users' :
          LET supplied == UNION {Supplies(p, u) : p \in Procs}
          IN  IF supplied # {}
              THEN \E w \in supplied :
                      users'[u].password \in Hashes(w) /\ users'[u].password # w
              ELSE u \in DOMAIN users /\ users'[u].password = users[u].password]_vars

\* ---------------------------------------------------------------- C30
\* C30: for every value of the page and limit parameters of GET /api/events
\* the values handed to findAll satisfy page >= 1 and 1 <= limit <= 100, so
\* the skip (page - 1) * limit is never negative.
C30_AsStated ==
    \A p \in Procs :
       proc[p].op = "getEvents" /\ proc[p].pc \in {"list", "found", "counted"}
          => /\ proc[p].q.page >= 1
             /\ proc[p].q.limit >= 1 /\ proc[p].q.limit <= 100
             /\ (proc[p].q.page - 1) * proc[p].q.limit >= 0

====
